---- MODULE Spec2Model ----
(***************************************************************************)
(* Model of the repository analyzer (utils/parser_utils.py, CodeParser)    *)
(* and of the question/answer agent (utils/qa_agent.py, QAAgent).          *)
(*                                                                         *)
(* Python strings that the code inspects (paths, questions, names) are     *)
(* TLA+ strings; Python dicts are ordered association lists (sequences of  *)
(* [key, value] records, insertion ordered as in CPython); a Python dict   *)
(* with optional keys is a TLA+ record whose DOMAIN holds the present keys.*)
(* File contents are not inspected character by character by the code      *)
(* modelled here, so a content string is the record                        *)
(* [src, take, dots]: the first `take' characters of the content of file   *)
(* `src', followed by the marker "..." when dots is TRUE.                  *)
(***************************************************************************)
EXTENDS Integers, Sequences, FiniteSets, TLC

VARIABLES
    context_cache,        \* QAAgent.context_cache
    conversation_history, \* QAAgent.conversation_history
    search_index,         \* QAAgent.search_index
    last_call,            \* name of the operation that returned last
    result,               \* value returned by the last operation
    completed,            \* question/answer pairs completed since the history was last emptied
    index_before          \* the search index as the last operation found it

vars ==
    <<context_cache, conversation_history, search_index, last_call, result, completed,
      index_before>>

------------------------------------------------------------------------------
(* Bounds of the model *)

MaxCycles == 12   \* completed answer_question calls after which a session asks no more

------------------------------------------------------------------------------
(* Python built-ins on strings and lists *)

Min(a, b) == IF a < b THEN a ELSE b

UpperCase == "ABCDEFGHIJKLMNOPQRSTUVWXYZ"
LowerCase == "abcdefghijklmnopqrstuvwxyz"

\* the lower-case letter of every upper-case letter
LowerTable ==
    [c \in {SubSeq(UpperCase, i, i) : i \in 1..Len(UpperCase)} |->
        LET i == CHOOSE j \in 1..Len(UpperCase) : SubSeq(UpperCase, j, j) = c
        IN  SubSeq(LowerCase, i, i)]

\* str.lower() on one character
LowerChar(c) == IF c \in DOMAIN LowerTable THEN LowerTable[c] ELSE c

\* str.lower(): a string without upper-case letters is its own lower-case form,
\* any other string is lowered half by half
RECURSIVE Lower(_)
Lower(s) ==
    IF \A i \in 1..Len(s) : SubSeq(s, i, i) \notin DOMAIN LowerTable THEN s
    ELSE IF Len(s) = 1 THEN LowerChar(s)
    ELSE LET half == Len(s) \div 2
         IN  Lower(SubSeq(s, 1, half)) \o Lower(SubSeq(s, half + 1, Len(s)))

\* `t in s' for strings
Contains(s, t) ==
    \E i \in 1..(Len(s) - Len(t) + 1) : SubSeq(s, i, i + Len(t) - 1) = t

\* any(k in s for k in keywords)
ContainsAny(s, keywords) == \E k \in keywords : Contains(s, k)

\* s.startswith(t)
StartsWith(s, t) == Len(t) <= Len(s) /\ SubSeq(s, 1, Len(t)) = t

\* s.split(sep) for a one-character separator: the text between consecutive separators
Split(s, sep) ==
    LET seps == {i \in 1..Len(s) : SubSeq(s, i, i) = sep}
        \* the position of the k-th separator; 0 and Len(s) + 1 bracket the string
        Pos(k) == IF k = 0 THEN 0
                  ELSE IF k > Cardinality(seps) THEN Len(s) + 1
                  ELSE CHOOSE i \in seps : Cardinality({j \in seps : j < i}) = k - 1
    IN  [k \in 1..(Cardinality(seps) + 1) |-> SubSeq(s, Pos(k - 1) + 1, Pos(k) - 1)] \o <<>>

\* [F(x) for x in lst]
Map(F(_), lst) == [i \in 1..Len(lst) |-> F(lst[i])] \o <<>>

\* acc after `for x in lst[lo..hi]: acc = Step(acc, x)', the first half of the
\* iterations being carried out before the second half
RECURSIVE Fold(_, _, _, _, _)
Fold(Step(_, _), acc, lst, lo, hi) ==
    IF lo > hi THEN acc
    ELSE IF lo = hi THEN Step(acc, lst[lo])
    ELSE LET mid == (lo + hi) \div 2
             half == Fold(Step, acc, lst, lo, mid)
         IN  \* the test makes TLC evaluate the first half before it starts the second
             IF half = half THEN Fold(Step, half, lst, mid + 1, hi) ELSE half

\* lst[:n]
Take(lst, n) == SubSeq(lst, 1, Min(n, Len(lst)))

\* lst[-n:]
LastN(lst, n) == SubSeq(lst, Len(lst) - Min(n, Len(lst)) + 1, Len(lst))

\* elements of a list
Range(lst) == {lst[i] : i \in 1..Len(lst)}

\* dict.get(key, default)
Get(d, key, default) == IF key \in DOMAIN d THEN d[key] ELSE default

\* the value None; an f-string renders it as the text None
None == "None"

\* the empty dict {}
EmptyDict == [k \in {} |-> {}]

------------------------------------------------------------------------------
(* Ordered dicts: sequences of [key |-> k, value |-> v] with unique keys *)

DictKeys(d) == Map(LAMBDA kv : kv.key, d)
DictValues(d) == Map(LAMBDA kv : kv.value, d)
HasKey(d, k) == \E i \in 1..Len(d) : d[i].key = k
DictGet(d, k) == d[CHOOSE i \in 1..Len(d) : d[i].key = k].value

\* d[k] = v : an existing key keeps its position, a new key goes last
DictSet(d, k, v) ==
    IF HasKey(d, k)
    THEN Map(LAMBDA kv : IF kv.key = k THEN [key |-> k, value |-> v] ELSE kv, d)
    ELSE Append(d, [key |-> k, value |-> v])

------------------------------------------------------------------------------
(* Content strings *)

\* the whole content of a file of n characters
WholeContent(src, n) == [src |-> src, take |-> n, dots |-> FALSE]

\* len(s)
StrLen(s) == s.take + (IF s.dots THEN 3 ELSE 0)

\* s[:n] of a string that carries no marker
Prefix(s, n) == [src |-> s.src, take |-> Min(s.take, n), dots |-> FALSE]

\* s + '...'
WithDots(s) == [src |-> s.src, take |-> s.take, dots |-> TRUE]

\* the empty string, as a content string
EmptyContent == [src |-> "", take |-> 0, dots |-> FALSE]

------------------------------------------------------------------------------
(* CodeParser: static tables *)

supported_extensions ==
    [ext \in {".py", ".js", ".ts", ".jsx", ".tsx", ".java", ".cpp", ".c", ".h",
              ".hpp", ".cs", ".php", ".rb", ".go", ".rs", ".swift", ".kt",
              ".scala", ".r", ".sql", ".sh", ".yaml", ".yml", ".json", ".xml",
              ".html", ".css", ".md", ".txt", ".rst"} |->
        CASE ext = ".py" -> "python"
          [] ext \in {".js", ".jsx"} -> "javascript"
          [] ext \in {".ts", ".tsx"} -> "typescript"
          [] ext = ".java" -> "java"
          [] ext \in {".cpp", ".hpp"} -> "cpp"
          [] ext \in {".c", ".h"} -> "c"
          [] ext = ".cs" -> "csharp"
          [] ext = ".php" -> "php"
          [] ext = ".rb" -> "ruby"
          [] ext = ".go" -> "go"
          [] ext = ".rs" -> "rust"
          [] ext = ".swift" -> "swift"
          [] ext = ".kt" -> "kotlin"
          [] ext = ".scala" -> "scala"
          [] ext = ".r" -> "r"
          [] ext = ".sql" -> "sql"
          [] ext = ".sh" -> "bash"
          [] ext \in {".yaml", ".yml"} -> "yaml"
          [] ext = ".json" -> "json"
          [] ext = ".xml" -> "xml"
          [] ext = ".html" -> "html"
          [] ext = ".css" -> "css"
          [] ext = ".md" -> "markdown"
          [] ext = ".txt" -> "text"
          [] ext = ".rst" -> "restructuredtext"]

ignore_dirs ==
    {"__pycache__", ".git", ".svn", ".hg", "node_modules",
     "venv", "env", ".env", "build", "dist", ".tox",
     "coverage", ".coverage", ".pytest_cache", ".mypy_cache",
     "target", "bin", "obj", ".gradle", ".idea", ".vscode",
     "vendor", "deps", "_build", ".next", ".nuxt"}

ignore_files ==
    {".gitignore", ".dockerignore", ".env", ".env.local",
     "package-lock.json", "yarn.lock", "poetry.lock",
     "Pipfile.lock", "composer.lock"}

binary_extensions ==
    {".exe", ".dll", ".so", ".dylib", ".bin", ".dat",
     ".pdf", ".doc", ".docx", ".xls", ".xlsx", ".ppt", ".pptx",
     ".jpg", ".jpeg", ".png", ".gif", ".bmp", ".svg", ".ico",
     ".mp3", ".mp4", ".avi", ".mov", ".wmv", ".flv",
     ".zip", ".rar", ".tar", ".gz", ".7z",
     ".jar", ".war", ".ear", ".pyc", ".pyo", ".pyd"}

------------------------------------------------------------------------------
(* pathlib.Path and os.path *)

\* Path(path).parts of a path without '.' and '..' segments
PathParts(path) == SelectSeq(Split(path, "/"), LAMBDA part : part # "")

\* the last element of a list of path parts, '' when there is none
LastPart(parts) == IF Len(parts) = 0 THEN "" ELSE parts[Len(parts)]

\* Path(path).name
PathName(path) == LastPart(PathParts(path))

\* str.rfind('.') : the last index of a dot, 0 when there is none (1-based)
LastDot(name) ==
    LET dots == {i \in 1..Len(name) : SubSeq(name, i, i) = "."}
    IN  IF dots = {} THEN 0 ELSE CHOOSE i \in dots : \A j \in dots : j <= i

\* the suffix of a file name whose last dot is at index i: a leading or trailing dot
\* starts no suffix
SuffixFrom(name, i) == IF 1 < i /\ i < Len(name) THEN SubSeq(name, i, Len(name)) ELSE ""

\* Path(path).suffix
PathSuffix(path) == SuffixFrom(PathName(path), LastDot(PathName(path)))

\* os.path.join(root, rel)
PathJoin(root, rel) == root \o "/" \o rel

\* only the name and the extension of the path are looked at
should_ignore_name(path) ==
    \/ PathName(path) \in ignore_files
    \/ Lower(PathSuffix(path)) \in binary_extensions

\* CodeParser.should_ignore_path
should_ignore_path(path) ==
    \/ \E part \in Range(PathParts(path)) : part \in ignore_dirs
    \/ PathName(path) \in ignore_files
    \/ Lower(PathSuffix(path)) \in binary_extensions

\* CodeParser.get_file_language
get_file_language(file_path) ==
    Get(supported_extensions, Lower(PathSuffix(file_path)), None)

------------------------------------------------------------------------------
(* CodeParser.analyze_file and CodeParser.analyze_repository               *)
(*                                                                         *)
(* A file of the tree on disk is the record                                *)
(*   [path, size, chars, lines, decodable, functions, classes, imports]:   *)
(* its path relative to the repository root, its size in bytes, the number *)
(* of characters and of newline-delimited segments of its decoded content, *)
(* whether one of the two encodings decodes it, and the function, class    *)
(* and import records its language strategy extracts from the content.     *)

MaxFileSize == 1024 * 1024   \* analyze_file skips files above this size
PreviewLen == 500            \* characters kept in content_preview
RetainLen == 5000            \* contents shorter than this are always retained

\* the skip signal of analyze_file
Skipped == [skipped |-> TRUE]

\* the condition under which analyze_file stores the full content
RetainsContent(file_name_lower, language, chars) ==
    \/ Contains(file_name_lower, "readme")
    \/ StartsWith(file_name_lower, "license")
    \/ StartsWith(file_name_lower, "changelog")
    \/ StartsWith(file_name_lower, "contributing")
    \/ language \in {"markdown", "text", "restructuredtext"}
    \/ chars < RetainLen

\* the file_info dict analyze_file builds for a file it has read
FileInfo(raw, file_path, language, content) ==
    LET file_info == [path |-> raw.path,
                      full_path |-> file_path,
                      language |-> language,
                      size |-> raw.size,
                      lines |-> raw.lines,
                      content_preview |-> IF raw.chars > PreviewLen
                                          THEN WithDots(Prefix(content, PreviewLen))
                                          ELSE Prefix(content, PreviewLen),
                      functions |-> raw.functions,
                      classes |-> raw.classes,
                      imports |-> raw.imports]
    IN  IF RetainsContent(Lower(PathName(file_path)), language, raw.chars)
        THEN file_info @@ [content |-> content]
        ELSE file_info

\* a file is analyzed whatever its size
analyze_file_of_any_size(raw, repo_root) ==
    IF ~raw.decodable THEN Skipped
    ELSE FileInfo(raw, PathJoin(repo_root, raw.path),
                  get_file_language(PathJoin(repo_root, raw.path)),
                  WholeContent(raw.path, raw.chars))

\* CodeParser.analyze_file
analyze_file(raw, repo_root) ==
    IF raw.size > MaxFileSize THEN Skipped
    ELSE IF ~raw.decodable THEN Skipped
    ELSE FileInfo(raw, PathJoin(repo_root, raw.path),
                  get_file_language(PathJoin(repo_root, raw.path)),
                  WholeContent(raw.path, raw.chars))

\* the directories above a file, outermost first, as paths relative to the root
DirsOf(rel) ==
    LET seps == {i \in 1..Len(rel) : SubSeq(rel, i, i) = "/"}
        Nth(k) == CHOOSE i \in seps : Cardinality({j \in seps : j < i}) = k - 1
    IN  [k \in 1..Cardinality(seps) |-> SubSeq(rel, 1, Nth(k) - 1)] \o <<>>

\* whether os.walk reaches the directory: neither it nor a directory above it was
\* removed from dirs
WalksInto(repo_path, dir) ==
    \A d \in Range(DirsOf(dir)) \cup {dir} : ~should_ignore_path(PathJoin(repo_path, d))

\* whether a walk lists the file: os.walk reaches its directory and the file itself is
\* not ignored
Survives(repo_path, rel) ==
    /\ \A d \in Range(DirsOf(rel)) : ~should_ignore_path(PathJoin(repo_path, d))
    /\ ~should_ignore_path(PathJoin(repo_path, rel))

\* the walk of analyze_repository: the queued paths, in walk order
WalkFiles(repo) ==
    SelectSeq(repo.tree, LAMBDA raw : Survives(repo.repo_path, raw.path))

\* os.path.relpath(root, repo_path) of the directory that holds the file
DirName(rel) == IF Len(DirsOf(rel)) = 0 THEN "." ELSE DirsOf(rel)[Len(DirsOf(rel))]

\* generate_directory_structure: current_dict[part] = {} for the parts of a directory
\* the walk reaches.  The nested dict is kept flat: one key for every directory, its
\* path relative to the root, whose value is the '_files' list of the directory,
\* empty when the dict of the directory has no '_files' key.
EnsureDir(structure, dir) ==
    IF HasKey(structure, dir) THEN structure ELSE DictSet(structure, dir, <<>>)

\* generate_directory_structure: the file name goes to the '_files' list of its directory
AddToFiles(structure, dir, name) ==
    DictSet(structure, dir,
            Append(IF HasKey(structure, dir) THEN DictGet(structure, dir) ELSE <<>>, name))

\* generate_directory_structure: what one file of the tree adds to the structure
StructureStep(structure, repo_path, rel) ==
    LET dirs == SelectSeq(DirsOf(rel), LAMBDA d : WalksInto(repo_path, d))
        reached == Fold(EnsureDir, structure, dirs, 1, Len(dirs))
    IN  IF Survives(repo_path, rel)
        THEN AddToFiles(reached, DirName(rel), PathName(rel))
        ELSE reached

\* CodeParser.generate_directory_structure
generate_directory_structure(repo) ==
    Fold(LAMBDA structure, raw : StructureStep(structure, repo.repo_path, raw.path),
         <<>>, repo.tree, 1, Len(repo.tree))

\* a file that fails takes the records of the files before it with it
AddFileAnalysisOrNone(analysis, file_analysis) ==
    IF file_analysis = Skipped
    THEN [analysis EXCEPT !.files = <<>>, !.analyzed_files = 0]
    ELSE [analysis EXCEPT !.files = Append(@, file_analysis),
                          !.analyzed_files = @ + 1]

\* the totals of the summary count the files, not their lines and definitions
AddFileAnalysisCountingFiles(analysis, file_analysis) ==
    IF file_analysis = Skipped THEN analysis
    ELSE [analysis EXCEPT
            !.files = Append(@, file_analysis),
            !.analyzed_files = @ + 1,
            !.summary = [total_lines |-> @.total_lines + 1,
                         total_functions |-> @.total_functions + 1,
                         total_classes |-> @.total_classes + 1,
                         total_imports |-> @.total_imports + 1]]

\* what the analysis loop of analyze_repository does with the result of analyze_file
AddFileAnalysis(analysis, file_analysis) ==
    LET lang == file_analysis.language
        old == IF HasKey(analysis.languages, lang)
               THEN DictGet(analysis.languages, lang)
               ELSE [files |-> 0, lines |-> 0]
    IN  IF file_analysis = Skipped THEN analysis
        ELSE [analysis EXCEPT
                !.files = Append(@, file_analysis),
                !.analyzed_files = @ + 1,
                !.languages = IF lang # None
                              THEN DictSet(@, lang, [files |-> old.files + 1,
                                                     lines |-> old.lines + file_analysis.lines])
                              ELSE @,
                !.summary = [total_lines |-> @.total_lines + file_analysis.lines,
                             total_functions |-> @.total_functions + Len(file_analysis.functions),
                             total_classes |-> @.total_classes + Len(file_analysis.classes),
                             total_imports |-> @.total_imports + Len(file_analysis.imports)]]

\* one iteration of the analysis loop of analyze_repository
AnalyzeStep(analysis, raw) ==
    AddFileAnalysis(analysis, analyze_file(raw, analysis.repository_path))

\* the analysis loop of analyze_repository over the queued paths
AnalyzeLoop(repo_path, all_files) ==
    Fold(AnalyzeStep,
         [repository_path |-> repo_path,
          total_files |-> Len(all_files),
          analyzed_files |-> 0,
          languages |-> <<>>,
          files |-> <<>>,
          structure |-> <<>>,
          summary |-> [total_lines |-> 0, total_functions |-> 0,
                       total_classes |-> 0, total_imports |-> 0]],
         all_files, 1, Len(all_files))

\* progress_callback of analyze_repository: not given (None), or a callable that raises
\* when it is invoked for the raises_at-th time and returns otherwise (never raises: 0)
NoCallback == [given |-> FALSE, raises_at |-> 0]
Callback(raises_at) == [given |-> TRUE, raises_at |-> raises_at]

\* the number of times analyze_repository invokes a callback that does not raise: once
\* at the start, once before every file whose index is a multiple of 10, once at the end
ProgressCalls(all_files) ==
    1 + Cardinality({i \in 0..(Len(all_files) - 1) : i % 10 = 0}) + 1

\* generate_directory_structure: whether current_dict has the key '_files' once the walk
\* has left the directory, which it has when the directory holds a file that is kept
HasFilesList(repo, dir) ==
    \E raw \in Range(repo.tree) :
        Survives(repo.repo_path, raw.path) /\ DirName(raw.path) = dir

\* generate_directory_structure: whether the walk raises on the way to a file of the
\* tree.  The list of file names and the dicts of the subdirectories share the keys of
\* current_dict; os.walk visits a directory before the directories in it, so below a
\* directory named '_files' whose parent has a list of file names, current_dict is that
\* list, and current_dict[part] = {} for a directory further down or
\* current_dict['_files'] = [] for a file that is kept raises TypeError.
RaisesOnTheWayTo(repo, rel) ==
    LET dirs == SelectSeq(DirsOf(rel), LAMBDA d : WalksInto(repo.repo_path, d))
    IN  \E k \in 1..Len(dirs) :
            /\ PathName(dirs[k]) = "_files"
            /\ HasFilesList(repo, DirName(dirs[k]))
            /\ k < Len(dirs) \/ Survives(repo.repo_path, rel)

\* generate_directory_structure: whether the call raises
StructureRaises(repo) ==
    \E raw \in Range(repo.tree) : RaisesOnTheWayTo(repo, raw.path)

\* CodeParser.analyze_repository: an exception that leaves the outer try, which the
\* callback and generate_directory_structure raise, makes the result {}
analyze_repository(repo, progress_callback) ==
    IF \/ /\ progress_callback.given
          /\ progress_callback.raises_at \in 1..ProgressCalls(WalkFiles(repo))
       \/ StructureRaises(repo)
    THEN EmptyDict
    ELSE [AnalyzeLoop(repo.repo_path, WalkFiles(repo)) EXCEPT
            !.structure = generate_directory_structure(repo)]

------------------------------------------------------------------------------
(* CodeParser.analyze_text_file: the headers of a markdown file            *)
(*                                                                         *)
(* The content of the file is the list of its lines, content.split('\n').  *)

\* characters str.strip() removes
Whitespace == {" ", "\t", "\n", "\r"}

\* the positions of the characters of s that are not in chars
Kept(s, chars) == {i \in 1..Len(s) : SubSeq(s, i, i) \notin chars}

\* s.lstrip(chars)
LStripChars(s, chars) ==
    IF Kept(s, chars) = {} THEN ""
    ELSE SubSeq(s, CHOOSE i \in Kept(s, chars) : \A j \in Kept(s, chars) : i <= j, Len(s))

\* s.rstrip(chars)
RStripChars(s, chars) ==
    IF Kept(s, chars) = {} THEN ""
    ELSE SubSeq(s, 1, CHOOSE i \in Kept(s, chars) : \A j \in Kept(s, chars) : j <= i)

\* s.strip(chars)
StripChars(s, chars) == RStripChars(LStripChars(s, chars), chars)

\* the record of a header: level and title as analyze_text_file computes them
HeaderRecord(line, i) ==
    [name |-> StripChars(StripChars(line, {"#"}), Whitespace),
     line |-> i,
     type |-> "header_h" \o ToString(Len(line) - Len(LStripChars(line, {"#"})))]

\* whether analyze_text_file takes the line for a header
IsHeaderLine(line) == StartsWith(StripChars(line, Whitespace), "#")

\* CodeParser.analyze_text_file for a markdown file: the records appended to functions
analyze_text_file(lines) ==
    LET headers == SelectSeq([i \in 1..Len(lines) |-> i] \o <<>>,
                             LAMBDA i : IsHeaderLine(lines[i]))
    IN  [k \in 1..Len(headers) |-> HeaderRecord(lines[headers[k]], headers[k])] \o <<>>

------------------------------------------------------------------------------
(* CodeParser.analyze_python_file: functions and classes                   *)
(*                                                                         *)
(* A Python source file is the list of its statements, one per line: the   *)
(* record [kind, name, indent] of line i is the statement that starts at   *)
(* line i, nested `indent' blocks deep.  The kinds are "def", "async def", *)
(* "class", "if" and "stmt" (a simple statement); a compound statement     *)
(* followed by no deeper line has its body on its own line.  ast.parse     *)
(* makes a FunctionDef node of a "def", an AsyncFunctionDef node of an     *)
(* "async def" and a ClassDef node of a "class"; the node of a statement   *)
(* is `indent' bodies below the Module node.                               *)

\* the statements in the body of the compound statement at line i
BodyOf(source, i) ==
    SelectSeq([j \in 1..Len(source) |-> j] \o <<>>,
              LAMBDA j : /\ j > i
                         /\ source[j].indent = source[i].indent + 1
                         /\ \A k \in (i + 1)..(j - 1) : source[k].indent > source[i].indent)

\* the statements `depth' bodies below the Module node, in source order
AtDepth(source, depth) ==
    SelectSeq([j \in 1..Len(source) |-> j] \o <<>>, LAMBDA j : source[j].indent = depth)

\* ast.walk(tree): breadth first, so the statement nodes come by depth and, at the same
\* depth, in source order
RECURSIVE WalkFrom(_, _)
WalkFrom(source, depth) ==
    IF AtDepth(source, depth) = <<>> THEN <<>>
    ELSE AtDepth(source, depth) \o WalkFrom(source, depth + 1)

\* class_info['methods']: the FunctionDef nodes in the body of the class
MethodsOf(source, i) ==
    Map(LAMBDA j : source[j].name,
        SelectSeq(BodyOf(source, i), LAMBDA j : source[j].kind = "def"))

\* file_info['functions'] after analyze_python_file: a record for every FunctionDef node
PythonFunctions(source) ==
    Map(LAMBDA i : [name |-> source[i].name, line |-> i],
        SelectSeq(WalkFrom(source, 0), LAMBDA i : source[i].kind = "def"))

\* file_info['classes'] after analyze_python_file: a record for every ClassDef node
PythonClasses(source) ==
    Map(LAMBDA i : [name |-> source[i].name, line |-> i, methods |-> MethodsOf(source, i)],
        SelectSeq(WalkFrom(source, 0), LAMBDA i : source[i].kind = "class"))

\* CodeParser.analyze_python_file for a file that ast.parse accepts
analyze_python_file(source) ==
    [functions |-> PythonFunctions(source), classes |-> PythonClasses(source)]

------------------------------------------------------------------------------
(* RepositorySummarizer.get_important_files *)

\* s.endswith(t)
EndsWith(s, t) == Len(t) <= Len(s) /\ SubSeq(s, Len(s) - Len(t) + 1, Len(s)) = t

\* s.count(c) for a one-character c
CountChar(s, c) == Cardinality({i \in 1..Len(s) : SubSeq(s, i, i) = c})

\* the points calculate_importance_score gives for the path of a file
PathScore(path) ==
    (IF ContainsAny(path, {"main", "index", "app", "server", "api", "__init__"})
     THEN 50 ELSE 0)
    + (IF ContainsAny(path, {"readme", "documentation", "doc"}) THEN 40 ELSE 0)
    + (IF ContainsAny(path, {"config", "settings", "setup"}) THEN 30 ELSE 0)
    + (IF \E name \in {"requirements.txt", "package.json", "pom.xml", "cargo.toml"} :
              EndsWith(path, name)
       THEN 35 ELSE 0)

\* the points calculate_importance_score gives for the place of a file in the tree
LocationScore(path) ==
    IF CountChar(path, "/") <= 1 \/ Contains(path, "/src/") THEN 15 ELSE 0

\* the points calculate_importance_score gives for the language of a file
LanguageScore(language) ==
    IF language \in {"python", "javascript", "typescript", "java", "cpp"} THEN 20
    ELSE IF language \in {"markdown", "yaml", "json"} THEN 10
    ELSE 0

\* the points calculate_importance_score gives for the size of a file
SizeScore(lines, functions_count, classes_count) ==
    (IF lines > 100 THEN Min(lines \div 50, 20) ELSE 0)
    + (IF functions_count > 0 THEN Min(functions_count * 3, 30) ELSE 0)
    + (IF classes_count > 0 THEN Min(classes_count * 5, 25) ELSE 0)
    - (IF lines > 2000 THEN 20 ELSE 0)

\* calculate_importance_score of get_important_files
calculate_importance_score(file_info) ==
    PathScore(Lower(Get(file_info, "path", "")))
    + LocationScore(Lower(Get(file_info, "path", "")))
    + LanguageScore(Get(file_info, "language", ""))
    + SizeScore(Get(file_info, "lines", 0),
                Len(Get(file_info, "functions", <<>>)),
                Len(Get(file_info, "classes", <<>>)))

\* an item goes in front of the items of equal score that are already sorted
InsertBeforeEqual(sorted, item) ==
    LET k == Cardinality({i \in 1..Len(sorted) : sorted[i].score > item.score})
    IN  SubSeq(sorted, 1, k) \o <<item>> \o SubSeq(sorted, k + 1, Len(sorted))

\* list.sort(key=..., reverse=True), one item at a time: the sort is stable, so an
\* item goes behind every sorted item whose score is not smaller than its own
InsertDescending(sorted, item) ==
    LET k == Cardinality({i \in 1..Len(sorted) : sorted[i].score >= item.score})
    IN  SubSeq(sorted, 1, k) \o <<item>> \o SubSeq(sorted, k + 1, Len(sorted))

\* scored_files of get_important_files
ScoredFiles(files) ==
    [i \in 1..Len(files) |->
        [file_info |-> files[i], score |-> calculate_importance_score(files[i])]] \o <<>>

\* scored_files after scored_files.sort(key=lambda x: x[1], reverse=True)
SortedFiles(scored_files) ==
    Fold(InsertDescending, <<>>, scored_files, 1, Len(scored_files))

\* RepositorySummarizer.get_important_files
get_important_files(files) ==
    LET sorted == SortedFiles(ScoredFiles(files))
    IN  [i \in 1..Len(sorted) |-> sorted[i].file_info] \o <<>>

------------------------------------------------------------------------------
(* QAAgent: the search index *)

MaxHistory == 10   \* conversation_history keeps this many entries

EmptyIndex == [files |-> <<>>, functions |-> <<>>, classes |-> <<>>, components |-> <<>>]

\* the context_cache of a new agent: {}
EmptyCache == EmptyDict

\* the name is indexed as it is written
IndexKeyAsWritten(name) == name

\* the key under which a function, class or component name is indexed: name.lower()
IndexKey(name) == Lower(name)

\* index[name].append(entry), creating the list of a new name
IndexAppend(index, name, entry) ==
    IF HasKey(index, name)
    THEN DictSet(index, name, Append(DictGet(index, name), entry))
    ELSE DictSet(index, name, <<entry>>)

\* one iteration of the loop over file_info['functions'] (kind = "function") or
\* file_info['classes'] (kind = "class")
IndexItem(index, file_info, kind, item) ==
    LET name == IndexKey(Get(item, "name", ""))
        entry == IF kind = "function"
                 THEN [file |-> Get(file_info, "path", ""), function |-> item,
                       file_info |-> file_info]
                 ELSE [file |-> Get(file_info, "path", ""), class |-> item,
                       file_info |-> file_info]
    IN  IF name # "" THEN IndexAppend(index, name, entry) ELSE index

\* the loop over file_info['functions'] or file_info['classes']
IndexNamed(index, file_info, kind, items) ==
    Fold(LAMBDA acc, item : IndexItem(acc, file_info, kind, item),
         index, items, 1, Len(items))

\* one iteration of the loop over the files of the analysis
IndexFile(index, file_info) ==
    [index EXCEPT
       !.files = DictSet(@, Lower(Get(file_info, "path", "")), file_info),
       !.functions = IndexNamed(@, file_info, "function", Get(file_info, "functions", <<>>)),
       !.classes = IndexNamed(@, file_info, "class", Get(file_info, "classes", <<>>))]

\* the loop over the files of the analysis
IndexFiles(index, files) == Fold(IndexFile, index, files, 1, Len(files))

\* one iteration of the loop over the key components
IndexComponent(components, component) ==
    DictSet(components, IndexKey(Get(component, "name", "")), component)

\* the loop over the key components
IndexComponents(components, key_components) ==
    Fold(IndexComponent, components, key_components, 1, Len(key_components))

\* QAAgent._build_search_index, from the index it finds: the code starts from an empty one
BuildFrom(start, cache) ==
    LET analysis == Get(cache, "analysis", EmptyDict)
        files == Get(analysis, "files", <<>>)
        indexed == IndexFiles(start, files)
    IN  [indexed EXCEPT
           !.components = IndexComponents(@, Get(cache, "key_components", <<>>))]

\* the index is not reset before it is filled
BuildMerging(old_index, cache) == BuildFrom(old_index, cache)

_build_search_index(old_index, cache) == BuildFrom(EmptyIndex, cache)

\* the cache QAAgent.load_repository_context stores
LoadedCache(analysis, summary) ==
    [analysis |-> analysis,
     summary |-> summary,
     repository_overview |-> Get(summary, "overview", ""),
     file_summaries |-> Get(summary, "file_summaries", <<>>),
     structure_analysis |-> Get(summary, "structure_analysis", ""),
     key_components |-> Get(summary, "key_components", <<>>),
     language_breakdown |-> Get(summary, "language_breakdown", <<>>),
     metadata |-> Get(summary, "metadata", EmptyDict)]

------------------------------------------------------------------------------
(* QAAgent._extract_relevant_context *)

FunctionKeywords == {"function", "method", "def ", "function named"}
ClassKeywords == {"class", "object", "inheritance"}
FileKeywords == {"file", "module", "script"}
StructureKeywords == {"structure", "architecture", "organization", "folder", "directory"}
TechnologyKeywords == {"language", "technology", "framework"}
DocumentationKeywords == {"documentation", "docs", "doc"}
DocIndicators == {"readme", "doc", "guide", "manual"}

MinNameLen == 3       \* names and path segments must be longer than this to match
DefaultKeys == 10     \* index keys the default slice is taken from
DefaultFunctions == 20
DefaultFiles == 15
DefaultClasses == 15

IntentTags ==
    {"general", "function", "class", "file", "structure", "technology", "readme",
     "documentation"}

\* the file keywords are tested before the class keywords
QuestionTypeFileFirst(question_lower) ==
    IF ContainsAny(question_lower, FunctionKeywords) THEN "function"
    ELSE IF ContainsAny(question_lower, FileKeywords) THEN "file"
    ELSE IF ContainsAny(question_lower, ClassKeywords) THEN "class"
    ELSE IF ContainsAny(question_lower, StructureKeywords) THEN "structure"
    ELSE IF ContainsAny(question_lower, TechnologyKeywords) THEN "technology"
    ELSE "general"

\* the if/elif chain that determines the question type
QuestionType(question_lower) ==
    IF ContainsAny(question_lower, FunctionKeywords) THEN "function"
    ELSE IF ContainsAny(question_lower, ClassKeywords) THEN "class"
    ELSE IF ContainsAny(question_lower, FileKeywords) THEN "file"
    ELSE IF ContainsAny(question_lower, StructureKeywords) THEN "structure"
    ELSE IF ContainsAny(question_lower, TechnologyKeywords) THEN "technology"
    ELSE "general"

\* the README override applies only to a question of no other type
OverriddenTypeShy(question_lower) ==
    LET base == QuestionType(question_lower)
        readme == IF Contains(question_lower, "readme") /\ base = "general"
                  THEN "readme" ELSE base
    IN  IF ContainsAny(question_lower, DocumentationKeywords) THEN "documentation" ELSE readme

\* the type after the README and documentation overrides
OverriddenType(question_lower) ==
    LET base == QuestionType(question_lower)
        readme == IF Contains(question_lower, "readme") THEN "readme" ELSE base
    IN  IF ContainsAny(question_lower, DocumentationKeywords) THEN "documentation" ELSE readme

\* [v for k, v in d.items() if pred(k)]
DictSelectValues(d, Pred(_)) ==
    DictValues(SelectSeq(d, LAMBDA kv : Pred(kv.key)))

\* concatenation of a list of lists
RECURSIVE Flatten(_)
Flatten(lists) ==
    IF Len(lists) = 0 THEN <<>> ELSE Head(lists) \o Flatten(Tail(lists))

\* the path-segment test of the file-name search
MentionsSegment(question_lower, file_path) ==
    \E part \in Range(Split(file_path, "/")) :
        Len(part) > MinNameLen /\ Contains(question_lower, part)

\* the name test of the function, class and component searches
MentionsName(question_lower, name) ==
    Contains(question_lower, name) /\ Len(name) > MinNameLen

\* the file-name, README, documentation, function, class and component searches
Matches(index, question_lower) ==
    [files |->
         DictSelectValues(index.files,
             LAMBDA file_path : MentionsSegment(question_lower, file_path))
         \o (IF Contains(question_lower, "readme")
             THEN DictSelectValues(index.files,
                      LAMBDA file_path : Contains(Lower(file_path), "readme"))
             ELSE <<>>)
         \o (IF ContainsAny(question_lower, DocumentationKeywords)
             THEN DictSelectValues(index.files,
                      LAMBDA file_path : ContainsAny(Lower(file_path), DocIndicators))
             ELSE <<>>),
     functions |->
         Flatten(DictSelectValues(index.functions,
             LAMBDA func_name : MentionsName(question_lower, func_name))),
     classes |->
         Flatten(DictSelectValues(index.classes,
             LAMBDA cls_name : MentionsName(question_lower, cls_name))),
     components |->
         DictSelectValues(index.components,
             LAMBDA comp_name : MentionsName(question_lower, comp_name))]

\* the default slices are taken without the final cut to 20, 15 and 15 entries
WithDefaultsUncut(index, cache, type, found) ==
    LET nothing == Len(found.files) = 0 /\ Len(found.functions) = 0
                   /\ Len(found.classes) = 0 /\ Len(found.components) = 0
    IN  [type |-> type,
         files |-> IF nothing /\ type = "file" THEN DictValues(index.files) ELSE found.files,
         functions |-> IF nothing /\ type = "function"
                       THEN Flatten(Take(DictValues(index.functions), DefaultKeys))
                       ELSE found.functions,
         classes |-> IF nothing /\ type = "class"
                     THEN Flatten(Take(DictValues(index.classes), DefaultKeys))
                     ELSE found.classes,
         components |-> found.components,
         metadata |-> Get(cache, "metadata", EmptyDict)]

\* the context of a question of the given type: what the searches found, or the
\* default slice of the index for the type when they found nothing
WithDefaults(index, cache, type, found) ==
    LET nothing == Len(found.files) = 0 /\ Len(found.functions) = 0
                   /\ Len(found.classes) = 0 /\ Len(found.components) = 0
    IN  [type |-> type,
         files |-> IF nothing /\ type = "file"
                   THEN Take(DictValues(index.files), DefaultFiles)
                   ELSE found.files,
         functions |-> IF nothing /\ type = "function"
                       THEN Take(Flatten(Take(DictValues(index.functions), DefaultKeys)),
                                 DefaultFunctions)
                       ELSE found.functions,
         classes |-> IF nothing /\ type = "class"
                     THEN Take(Flatten(Take(DictValues(index.classes), DefaultKeys)),
                               DefaultClasses)
                     ELSE found.classes,
         components |-> found.components,
         metadata |-> Get(cache, "metadata", EmptyDict)]

\* _extract_relevant_context once the question is lowercased
ContextOf(index, cache, question_lower) ==
    WithDefaults(index, cache, OverriddenType(question_lower), Matches(index, question_lower))

\* QAAgent._extract_relevant_context
_extract_relevant_context(index, cache, question) ==
    ContextOf(index, cache, Lower(question))

------------------------------------------------------------------------------
(* QAAgent._prepare_context_for_llm                                        *)
(*                                                                         *)
(* The rendered context is the list context_parts that the code joins with *)
(* newlines; every part is a record naming its format and the values that  *)
(* the f-string interpolates.                                              *)

ContentCap == 3000     \* characters of a file's content shown at most
ShownFiles == 10
ShownFunctions == 10
ShownClasses == 10
ShownComponents == 5
ShownSummaries == 5
ShownTurns == 3
ShownMethods == 5
QuestionCap == 100
AnswerCap == 200
DocstringCap == 200
SummaryCap == 300
SmallFileLines == 100

Heading(title) == [part |-> "heading", text |-> title]
Blank == [part |-> "blank"]

\* map f over a list and concatenate the lists it returns
RECURSIVE FlatMap(_, _)
FlatMap(F(_), lst) ==
    IF Len(lst) = 0 THEN <<>> ELSE F(Head(lst)) \o FlatMap(F, Tail(lst))

\* the lines of the "Complete File Structure" listing
StructureLinesOf(all_files) ==
    Map(LAMBDA file_info :
            [part |-> "structure_file",
             path |-> Get(file_info, "path", "unknown"),
             language |-> Get(file_info, "language", "unknown"),
             size |-> Get(file_info, "size", 0),
             lines |-> Get(file_info, "lines", 0)],
        all_files)

\* the listing stops after as many files as the "Relevant Files" section shows
StructureLinesCapped(all_files) == StructureLinesOf(Take(all_files, ShownFiles))

StructureLines(all_files) == StructureLinesOf(all_files)

\* the "Complete File Structure" section is rendered whatever the intent
StructureSectionAlways(cache, context) ==
    LET analysis == Get(cache, "analysis", EmptyDict)
        all_files == Get(analysis, "files", <<>>)
    IN  IF Len(all_files) > 0
        THEN <<Heading("Complete File Structure:")>>
             \o StructureLines(all_files)
             \o <<[part |-> "totals",
                   total_files |-> Get(analysis, "total_files", Len(all_files)),
                   analyzed_files |-> Get(analysis, "analyzed_files", Len(all_files))],
                  Blank>>
        ELSE <<>>

\* the "Complete File Structure" section
StructureSection(cache, context) ==
    LET analysis == Get(cache, "analysis", EmptyDict)
        all_files == Get(analysis, "files", <<>>)
    IN  IF context.type \in {"structure", "file"} /\ Len(all_files) > 0
        THEN <<Heading("Complete File Structure:")>>
             \o StructureLines(all_files)
             \o <<[part |-> "totals",
                   total_files |-> Get(analysis, "total_files", Len(all_files)),
                   analyzed_files |-> Get(analysis, "analyzed_files", Len(all_files))],
                  Blank>>
        ELSE <<>>

\* the condition under which the content of a relevant file is shown
ShowsContent(file_info, question) ==
    LET file_path == Get(file_info, "path", "unknown")
        language == Get(file_info, "language", "unknown")
        lines == Get(file_info, "lines", 0)
        content == Get(file_info, "content", Get(file_info, "content_preview", EmptyContent))
        question_lower == Lower(question)
    IN  /\ StrLen(content) > 0
        /\ \/ Contains(Lower(file_path), "readme")
           \/ Contains(Lower(file_path), "license")
           \/ Contains(Lower(file_path), "changelog")
           \/ Contains(Lower(file_path), "contributing")
           \/ language \in {"markdown", "text", "restructuredtext"}
           \/ lines < SmallFileLines
           \/ \E part \in Range(Split(file_path, "/")) :
                  Contains(question_lower, Lower(part))

\* the content of a relevant file is shown whole, whatever its length
FilePartsUncapped(file_info, question) ==
    LET content == Get(file_info, "content", Get(file_info, "content_preview", EmptyContent))
        line == [part |-> "file",
                 path |-> Get(file_info, "path", "unknown"),
                 language |-> Get(file_info, "language", "unknown"),
                 lines |-> Get(file_info, "lines", 0),
                 functions |-> Len(Get(file_info, "functions", <<>>)),
                 classes |-> Len(Get(file_info, "classes", <<>>))]
    IN  IF ShowsContent(file_info, question)
        THEN <<line, [part |-> "full_content", content |-> Get(file_info, "content", content)]>>
        ELSE <<line>>

\* the parts rendered for one relevant file
FileParts(file_info, question) ==
    LET content == Get(file_info, "content", Get(file_info, "content_preview", EmptyContent))
        full_content == Get(file_info, "content", content)
        line == [part |-> "file",
                 path |-> Get(file_info, "path", "unknown"),
                 language |-> Get(file_info, "language", "unknown"),
                 lines |-> Get(file_info, "lines", 0),
                 functions |-> Len(Get(file_info, "functions", <<>>)),
                 classes |-> Len(Get(file_info, "classes", <<>>))]
    IN  IF ShowsContent(file_info, question)
        THEN IF StrLen(full_content) > ContentCap
             THEN <<line, [part |-> "content_first",
                           content |-> WithDots(Prefix(full_content, ContentCap))]>>
             ELSE <<line, [part |-> "full_content", content |-> full_content]>>
        ELSE <<line>>

\* the "Relevant Files" section
FilesSection(context, question) ==
    IF Len(context.files) > 0
    THEN <<Heading("Relevant Files:")>>
         \o FlatMap(LAMBDA file_info : FileParts(file_info, question),
                    Take(context.files, ShownFiles))
         \o <<Blank>>
    ELSE <<>>

\* the parts rendered for one relevant function
FunctionParts(func_info) ==
    LET func == Get(func_info, "function", EmptyDict)
        docstring == Get(func, "docstring", "")
        line == [part |-> "function",
                 name |-> Get(func, "name", "unknown"),
                 args |-> Get(func, "args", <<>>),
                 file |-> Get(func_info, "file", "unknown"),
                 line |-> Get(func, "line", 0)]
    IN  IF docstring # ""
        THEN <<line, [part |-> "description", text |-> Take(docstring, DocstringCap)]>>
        ELSE <<line>>

\* the "Relevant Functions" section
FunctionsSection(context) ==
    IF Len(context.functions) > 0
    THEN <<Heading("Relevant Functions:")>>
         \o FlatMap(FunctionParts, Take(context.functions, ShownFunctions))
         \o <<Blank>>
    ELSE <<>>

\* the parts rendered for one relevant class
ClassParts(cls_info) ==
    LET cls == Get(cls_info, "class", EmptyDict)
        methods == Get(cls, "methods", <<>>)
        docstring == Get(cls, "docstring", "")
        line == [part |-> "class",
                 name |-> Get(cls, "name", "unknown"),
                 file |-> Get(cls_info, "file", "unknown"),
                 line |-> Get(cls, "line", 0)]
    IN  <<line>>
        \o (IF Len(methods) > 0
            THEN <<[part |-> "methods", names |-> Take(methods, ShownMethods)]>>
            ELSE <<>>)
        \o (IF docstring # ""
            THEN <<[part |-> "description", text |-> Take(docstring, DocstringCap)]>>
            ELSE <<>>)

\* the "Relevant Classes" section
ClassesSection(context) ==
    IF Len(context.classes) > 0
    THEN <<Heading("Relevant Classes:")>>
         \o FlatMap(ClassParts, Take(context.classes, ShownClasses))
         \o <<Blank>>
    ELSE <<>>

\* the "Relevant Components" section
ComponentsSection(context) ==
    LET shown == Take(context.components, ShownComponents)
    IN  IF Len(context.components) > 0
        THEN <<Heading("Relevant Components:")>>
             \o Map(LAMBDA component :
                        [part |-> "component",
                         name |-> Get(component, "name", "unknown"),
                         files_count |-> Get(component, "files_count", 0),
                         lines |-> Get(component, "total_lines", 0),
                         functions |-> Get(component, "functions_count", 0),
                         classes |-> Get(component, "classes_count", 0)],
                    shown)
             \o <<Blank>>
        ELSE <<>>

\* the "Key File Summaries" section
SummariesSection(cache, context) ==
    LET file_summaries == Take(Get(cache, "file_summaries", <<>>), ShownSummaries)
    IN  IF context.type \in {"general", "file"} /\ Len(context.files) = 0
           /\ Len(file_summaries) > 0
        THEN <<Heading("Key File Summaries:")>>
             \o Map(LAMBDA file_summary :
                        [part |-> "file_summary",
                         file |-> Get(file_summary, "file", "unknown"),
                         summary |-> Take(Get(file_summary, "summary", "No summary"),
                                          SummaryCap)],
                    file_summaries)
             \o <<Blank>>
        ELSE <<>>

\* every turn of the history is shown
ConversationSectionAll(history) ==
    IF Len(history) > 0
    THEN <<Heading("Recent Conversation:")>>
         \o FlatMap(LAMBDA conv :
                        <<[part |-> "Q", text |-> Take(conv.question, QuestionCap)],
                          [part |-> "A", text |-> Take(conv.answer, AnswerCap)]>>,
                    history)
         \o <<Blank>>
    ELSE <<>>

\* the "Recent Conversation" section
ConversationSection(history) ==
    IF Len(history) > 0
    THEN <<Heading("Recent Conversation:")>>
         \o FlatMap(LAMBDA conv :
                        <<[part |-> "Q", text |-> Take(conv.question, QuestionCap)],
                          [part |-> "A", text |-> Take(conv.answer, AnswerCap)]>>,
                    LastN(history, ShownTurns))
         \o <<Blank>>
    ELSE <<>>

\* QAAgent._prepare_context_for_llm
_prepare_context_for_llm(cache, history, context, question) ==
    LET overview == Get(cache, "repository_overview", "")
        structure == Get(cache, "structure_analysis", "")
        languages == Get(cache, "language_breakdown", <<>>)
    IN  (IF overview # "" THEN <<[part |-> "overview", text |-> overview]>> ELSE <<>>)
        \o StructureSection(cache, context)
        \o (IF context.type \in {"structure", "general"} /\ structure # ""
            THEN <<[part |-> "structure_analysis", text |-> structure]>>
            ELSE <<>>)
        \o (IF context.type \in {"technology", "general"} /\ Len(languages) > 0
            THEN <<[part |-> "language_breakdown", languages |-> languages]>>
            ELSE <<>>)
        \o FilesSection(context, question)
        \o FunctionsSection(context)
        \o ClassesSection(context)
        \o ComponentsSection(context)
        \o SummariesSection(cache, context)
        \o ConversationSection(history)

------------------------------------------------------------------------------
(* Inputs: repository trees, summaries, questions, generator responses *)

NumModules == 16   \* files of the generated package of the fourth tree

NumAssets == 110   \* files of the fifth tree

MiB == 1024 * 1024

File(path, size, chars, lines, functions, classes) ==
    [path |-> path, size |-> size, chars |-> chars, lines |-> lines, decodable |-> TRUE,
     functions |-> functions, classes |-> classes, imports |-> <<>>]

\* a Python function record and a Python class record
Def(name, line, args, docstring) ==
    [name |-> name, line |-> line, args |-> args, docstring |-> docstring,
     decorators |-> <<>>]
Cls(name, line, methods) ==
    [name |-> name, line |-> line, bases |-> <<>>, docstring |-> "", methods |-> methods]

\* a markdown heading record
Hdr(title, line, level) ==
    [name |-> title, line |-> line, type |-> "header_h" \o ToString(level)]

Repos ==
    << \* README.md (40 lines) and main.py with run, App and App.start
       [repo_path |-> "repos/demo",
        tree |-> <<File("README.md", 900, 900, 40,
                        <<Hdr("Demo", 1, 1), Hdr("", 7, 2)>>, <<>>),
                   File("main.py", 400, 400, 30,
                        <<Def("run", 1, <<>>, "Run the demo."),
                          Def("start", 6, <<"self">>, "")>>,
                        <<Cls("App", 4, <<"start">>)>>)>>,
        components |-> <<>>],
       \* README.md (40 lines, more than 3000 characters) and main.py with run only
       [repo_path |-> "repos/long",
        tree |-> <<File("README.md", 3500, 3500, 40, <<>>, <<>>),
                   File("main.py", 120, 120, 8, <<Def("run", 3, <<"argv">>, "")>>, <<>>)>>,
        components |-> <<>>],
       \* documentation files, names shared across files, an unretained large file,
       \* an oversized file, a file that cannot be read, ignored paths
       [repo_path |-> "/srv/checkouts/docs-site",
        tree |-> <<File(".gitignore", 20, 20, 3, <<>>, <<>>),
                   File("LICENSE", 1000, 1000, 20, <<>>, <<>>),
                   File("logo.png", 5000, 5000, 10, <<>>, <<>>),
                   File("data/big.ipynb", 2 * MiB, 2 * MiB, 1000, <<>>, <<>>),
                   [File("data/raw.csv", 300, 300, 5, <<>>, <<>>)
                       EXCEPT !.decodable = FALSE],
                   File("node_modules/lib/index.js", 200, 200, 10,
                        <<Def("index", 1, <<>>, "")>>, <<>>),
                   File("README.md", 600, 600, 12, <<Hdr("Guide", 1, 1)>>, <<>>),
                   File("docs/README.txt", 100, 100, 4, <<>>, <<>>),
                   File("docs/guide.md", 4000, 4000, 150,
                        <<Hdr("Install", 3, 2), Hdr("", 9, 3)>>, <<>>),
                   File("src/core/Parser.py", 800, 800, 60,
                        <<Def("Parse", 2, <<"text">>, "Parse the text.")>>,
                        <<Cls("Parser", 1, <<"Parse">>)>>),
                   File("src/core/engine.py", 6000, 6000, 200,
                        <<Def("run", 20, <<>>, "")>>,
                        <<Cls("Engine", 5, <<>>), Cls("Parser", 90, <<>>)>>),
                   File("src/utils/helper.py", 700, 700, 50,
                        <<Def("helper", 3, <<>>, ""), Def("parse", 10, <<"s">>, ""),
                          Def("run", 20, <<>>, "")>>,
                        <<>>)>>,
        components |-> <<[name |-> "src/core", files_count |-> 2, total_lines |-> 260,
                          functions_count |-> 2, classes_count |-> 3],
                         [name |-> "docs", files_count |-> 2, total_lines |-> 154,
                          functions_count |-> 1, classes_count |-> 0],
                         [name |-> "root", files_count |-> 2, total_lines |-> 32,
                          functions_count |-> 1, classes_count |-> 0]>>],
       \* a package of NumModules modules, each with a function and a class of its own
       \* and a function and a class named as in every other module
       [repo_path |-> "repos/many",
        tree |-> [i \in 1..NumModules |->
                    File("pkg/mod" \o ToString(i) \o ".py", 100 * i, 100 * i, 10 * i,
                         <<Def("handler" \o ToString(i), 1, <<>>, ""),
                           Def("setup", 3, <<>>, "Prepare the module.")>>,
                         <<Cls("Model" \o ToString(i), 5, <<"save", "load">>),
                           Cls("Base", 9, <<>>)>>)] \o <<>>,
        components |-> [i \in 1..6 |->
                          [name |-> "part" \o ToString(i), files_count |-> 2,
                           total_lines |-> 30, functions_count |-> 4,
                           classes_count |-> 4]] \o <<>>],
       \* a directory of NumAssets one-line text files
       [repo_path |-> "repos/assets",
        tree |-> [i \in 1..NumAssets |->
                    File("assets/note" \o ToString(i) \o ".txt", 10, 10, 1,
                         <<>>, <<>>)] \o <<>>,
        components |-> <<>>] >>

\* the analysis of every tree
Analyses == [r \in DOMAIN Repos |-> analyze_repository(Repos[r], NoCallback)] \o <<>>

\* the summary that the summarizer hands over with the analysis of tree r
SummaryOf(repo, analysis) ==
    [overview |-> "Overview of " \o repo.repo_path,
     structure_analysis |-> "Layout of " \o repo.repo_path,
     file_summaries |-> Map(LAMBDA file_info :
                                [file |-> file_info.path,
                                 summary |-> "Summary of " \o file_info.path],
                            analysis.files),
     key_components |-> repo.components,
     language_breakdown |-> analysis.languages,
     metadata |-> [repository |-> repo.repo_path]]

Summaries == [r \in DOMAIN Repos |-> SummaryOf(Repos[r], Analyses[r])] \o <<>>

\* words that questions are combined from
Vocabulary ==
    <<"function", "class", "file", "structure", "language", "readme", "docs", "hello">>

Questions ==
    {"What does the run function do?",
     "What is the README about?",
     "What is the file structure of this folder?",
     "How is the architecture organized?",
     "What does helper do in main.py?",
     "Explain src/core and the parser",
     "Is README.md the readme documentation?",
     "Where is handler7?",
     "What is in the guide?",
     "Compare part1, part2, part3, part4, part5 and part6"}
    \cup {Vocabulary[p[1]] \o " and " \o Vocabulary[p[2]] :
              p \in {q \in (DOMAIN Vocabulary) \X (DOMAIN Vocabulary) : q[1] <= q[2]}}

\* questions and trees of the session specification
SessionQuestions == {"What does the run function do?"}
SessionRepos == {1, 3}
SessionResponses == {[kind |-> "text", text |-> "It runs the demo."], [kind |-> "raise"]}

\* how the try block of answer_question ends: call_llm returns a text or None, or an
\* exception is raised (by a question that is not a string, or by a substituted generator)
Responses ==
    {[kind |-> "text", text |-> "It runs the demo."],
     [kind |-> "text", text |-> ""],
     [kind |-> "none"],
     [kind |-> "raise"]}

MaxAsked == 2   \* questions an agent answers through LLMUtils

\* the texts the generator produces
GeneratedTexts == {"It runs the demo.", " It runs the demo.\n", "", "  "}

\* how the exchange with the generator ends
Outcomes ==
    {[kind |-> "no_api_key"],
     [kind |-> "request_failed", error |-> "Read timed out. (read timeout=60)"],
     [kind |-> "request_failed", error |-> "401 Client Error: Unauthorized"],
     [kind |-> "invalid_json"],
     [kind |-> "malformed", error |-> "'message'"],
     [kind |-> "no_choices"]}
    \cup {[kind |-> "content", text |-> text] : text \in GeneratedTexts}

FallbackAnswer ==
    "I'm unable to answer your question based on the available repository analysis. Could you please rephrase your question or be more specific?"

ErrorAnswer == "I'm sorry, I encountered an error while processing your question: "

------------------------------------------------------------------------------
(* LLMUtils.call_llm                                                       *)
(*                                                                         *)
(* How the exchange with the text generator ends is the record `outcome':  *)
(*   [kind |-> "no_api_key"]            no key is configured               *)
(*   [kind |-> "request_failed", error] requests.post or raise_for_status  *)
(*                                      raises (timeout, transport, status)*)
(*   [kind |-> "invalid_json"]          the body of the response is no JSON*)
(*   [kind |-> "malformed", error]      choices[0] lacks the message       *)
(*   [kind |-> "no_choices"]            the JSON has no choice             *)
(*   [kind |-> "content", text]         the content of the first choice    *)

\* str.strip()
Strip(s) ==
    LET kept == {i \in 1..Len(s) : SubSeq(s, i, i) \notin {" ", "\n", "\t"}}
    IN  IF kept = {} THEN ""
        ELSE SubSeq(s, CHOOSE i \in kept : \A j \in kept : i <= j,
                       CHOOSE i \in kept : \A j \in kept : j <= i)

\* LLMUtils.call_llm: the text it returns, or None
call_llm(outcome) ==
    CASE outcome.kind = "no_api_key" ->
             [kind |-> "text",
              text |-> "Error: No API key configured. Please set your OpenRouter API key."]
      [] outcome.kind = "request_failed" ->
             [kind |-> "text", text |-> "Error: API request failed - " \o outcome.error]
      [] outcome.kind = "invalid_json" ->
             [kind |-> "text", text |-> "Error: Invalid API response format"]
      [] outcome.kind = "malformed" ->
             [kind |-> "text", text |-> "Error: " \o outcome.error]
      [] outcome.kind = "no_choices" -> [kind |-> "none"]
      [] outcome.kind = "content" -> [kind |-> "text", text |-> Strip(outcome.text)]

------------------------------------------------------------------------------
(* QAAgent.suggest_questions *)

\* the suggestions of an agent without a context
UnloadedSuggestions ==
    <<"What is the main purpose of this repository?",
      "What programming languages are used?",
      "How is the code organized?">>

\* the general questions
GeneralSuggestions ==
    <<"What is the main purpose of this repository?",
      "What programming languages are used in this project?",
      "How is the code organized and structured?">>

\* the questions about the first three function names of the index
FunctionSuggestions(index) ==
    Map(LAMBDA func_name : "What does the " \o func_name \o " function do?",
        Take(DictKeys(Get(index, "functions", <<>>)), 3))

\* the questions about the first two class names of the index
ClassSuggestions(index) ==
    Map(LAMBDA cls_name : "What is the " \o cls_name \o " class used for?",
        Take(DictKeys(Get(index, "classes", <<>>)), 2))

\* the questions about those of the first three files of the index that look important
FileSuggestions(index) ==
    Map(LAMBDA file_path : "What does the " \o file_path \o " file contain?",
        SelectSeq(Take(DictKeys(Get(index, "files", <<>>)), 3),
                  LAMBDA file_path :
                      ContainsAny(Lower(file_path), {"main", "app", "index", "api"})))

\* the questions about technologies, asked when more than one language is used
TechnologySuggestions(cache) ==
    IF Len(Get(cache, "language_breakdown", <<>>)) > 1
    THEN <<"What frameworks and libraries are being used?",
           "How are different technologies integrated in this project?">>
    ELSE <<>>

\* the questions about the architecture, asked when there are more than two components
ArchitectureSuggestions(cache) ==
    IF Len(Get(cache, "key_components", <<>>)) > 2
    THEN <<"What are the main components of this application?",
           "How do different modules interact with each other?">>
    ELSE <<>>

\* every suggestion is returned, however many there are
suggest_questions_all(cache, index) ==
    IF cache = EmptyCache THEN UnloadedSuggestions
    ELSE GeneralSuggestions \o FunctionSuggestions(index) \o ClassSuggestions(index)
         \o FileSuggestions(index) \o TechnologySuggestions(cache)
         \o ArchitectureSuggestions(cache)

\* QAAgent.suggest_questions
suggest_questions(cache, index) ==
    IF cache = EmptyCache THEN UnloadedSuggestions
    ELSE Take(GeneralSuggestions \o FunctionSuggestions(index) \o ClassSuggestions(index)
              \o FileSuggestions(index) \o TechnologySuggestions(cache)
              \o ArchitectureSuggestions(cache),
              10)

------------------------------------------------------------------------------
(* QAAgent: operations *)

\* QAAgent.__init__
Init ==
    /\ context_cache = EmptyCache
    /\ conversation_history = <<>>
    /\ search_index = EmptyIndex
    /\ last_call = "__init__"
    /\ result = EmptyDict
    /\ completed = <<>>
    /\ index_before = EmptyIndex

\* QAAgent.load_repository_context(analysis, summary) with the analysis and summary of tree r
load_repository_context(r) ==
    /\ context_cache' = LoadedCache(Analyses[r], Summaries[r])
    /\ search_index' = _build_search_index(search_index, context_cache')
    /\ last_call' = "load_repository_context"
    /\ result' = EmptyDict
    /\ index_before' = search_index
    /\ UNCHANGED <<conversation_history, completed>>

\* _extract_relevant_context(question) followed by _prepare_context_for_llm(context, question),
\* called on the agent directly
ExtractAndPrepare(question) ==
    LET context == _extract_relevant_context(search_index, context_cache, question)
        context_text == _prepare_context_for_llm(context_cache, conversation_history,
                                                 context, question)
    IN  /\ result' = [question |-> question, context |-> context,
                      context_text |-> context_text]
        /\ last_call' = "_prepare_context_for_llm"
        /\ index_before' = search_index
        /\ UNCHANGED <<context_cache, conversation_history, search_index, completed>>

\* QAAgent._generate_answer, given what call_llm returns
_generate_answer(response) ==
    IF response.kind = "text" /\ response.text # "" THEN response.text ELSE FallbackAnswer

\* the cut keeps the oldest entries instead of the newest
RememberOldest(history, entry) ==
    LET appended == Append(history, entry)
    IN  IF Len(appended) > MaxHistory THEN Take(appended, MaxHistory) ELSE appended

\* the history after conversation_history.append(entry) and the cut to the last entries
Remember(history, entry) ==
    LET appended == Append(history, entry)
    IN  IF Len(appended) > MaxHistory THEN LastN(appended, MaxHistory) ELSE appended

\* the exception leaves answer_question: the caller gets no answer and no context
Propagated(question) == [question |-> question, exception |-> TRUE, raised |-> TRUE]

\* what the except branch of answer_question returns: the apology, which ends with the
\* text of the exception, and {}
Apology(question) ==
    [question |-> question, answer |-> ErrorAnswer, context |-> EmptyDict, raised |-> TRUE]

\* QAAgent.answer_question(question), the generator call ending as `response'
answer_question(question, response) ==
    /\ last_call' = "answer_question"
    /\ index_before' = search_index
    /\ IF response.kind = "raise"
       THEN /\ result' = Apology(question)
            /\ UNCHANGED <<context_cache, conversation_history, search_index, completed>>
       ELSE LET relevant_context ==
                    _extract_relevant_context(search_index, context_cache, question)
                context_text ==
                    _prepare_context_for_llm(context_cache, conversation_history,
                                             relevant_context, question)
                answer == _generate_answer(response)
                entry == [question |-> question, answer |-> answer,
                          context_used |-> relevant_context]
            IN  /\ conversation_history' = Remember(conversation_history, entry)
                /\ completed' = Append(completed, entry)
                /\ result' = [question |-> question, answer |-> answer,
                              context |-> relevant_context, context_text |-> context_text,
                              raised |-> FALSE]
                /\ UNCHANGED <<context_cache, search_index>>

\* QAAgent.clear_conversation_history
clear_conversation_history ==
    /\ conversation_history' = <<>>
    /\ completed' = <<>>
    /\ last_call' = "clear_conversation_history"
    /\ result' = EmptyDict
    /\ index_before' = search_index
    /\ UNCHANGED <<context_cache, search_index>>

\* QAAgent.answer_question(question) of an agent whose generator is LLMUtils, the
\* exchange with the generator ending as `outcome'
Ask(question, outcome) ==
    /\ Len(completed) < MaxAsked
    /\ answer_question(question, call_llm(outcome))

\* QAAgent.suggest_questions()
SuggestQuestions ==
    /\ result' = [suggestions |-> suggest_questions(context_cache, search_index)]
    /\ last_call' = "suggest_questions"
    /\ index_before' = search_index
    /\ UNCHANGED <<context_cache, conversation_history, search_index, completed>>

------------------------------------------------------------------------------
(* Specifications *)

\* the retrieval engine: contexts loaded and questions put to it
Next ==
    \/ \E r \in DOMAIN Repos : load_repository_context(r)
    \/ \E question \in Questions : ExtractAndPrepare(question)

Spec == Init /\ [][Next]_vars

\* the tree whose analysis is loaded, 0 when none is
LoadedRepo ==
    IF context_cache = EmptyCache THEN 0
    ELSE CHOOSE r \in DOMAIN Repos : Analyses[r] = context_cache.analysis

\* a session: contexts loaded one after the other, questions answered, the history cleared
NextSession ==
    \/ \E r \in SessionRepos : r > LoadedRepo /\ load_repository_context(r)
    \/ /\ Len(completed) < MaxCycles
       /\ \E question \in SessionQuestions, response \in SessionResponses :
              answer_question(question, response)
    \/ clear_conversation_history

SpecSession == Init /\ [][NextSession]_vars

MaxTurns == 5   \* question/answer pairs completed before a context is rendered

\* questions put to an agent that has answered questions before
RenderQuestions ==
    {"What does the run function do?",
     "What is the README about?",
     "What is the file structure of this folder?",
     "How is the architecture organized?",
     "What does helper do in main.py?",
     "Explain src/core and the parser",
     "Is README.md the readme documentation?",
     "What is in the guide?",
     "Compare part1, part2, part3, part4, part5 and part6",
     "class and class",
     "hello and hello",
     "language and hello"}

\* the history after h calls answer_question("What does the run function do?") that the
\* generator answered
Turns(index, cache, h) ==
    [i \in 1..h |->
        [question |-> "What does the run function do?",
         answer |-> "It runs the demo.",
         context_used |-> _extract_relevant_context(index, cache,
                                                    "What does the run function do?")]] \o <<>>

\* the agent after load_repository_context and the calls that left the given history
Answered(cache, index, history) ==
    /\ context_cache = cache
    /\ search_index = index
    /\ index_before = index
    /\ conversation_history = history
    /\ completed = history
    /\ IF Len(history) = 0
       THEN last_call = "load_repository_context" /\ result = EmptyDict
       ELSE /\ last_call = "answer_question"
            /\ result = [question |-> history[Len(history)].question,
                         answer |-> history[Len(history)].answer,
                         context |-> history[Len(history)].context_used,
                         context_text |->
                             _prepare_context_for_llm(cache,
                                 SubSeq(history, 1, Len(history) - 1),
                                 history[Len(history)].context_used,
                                 history[Len(history)].question),
                         raised |-> FALSE]

\* the agent after load_repository_context(analysis, summary) and h answered questions
AnsweredAfterLoad(cache, index, h) == Answered(cache, index, Turns(index, cache, h))

LoadedAndAnswered(cache, h) ==
    AnsweredAfterLoad(cache, _build_search_index(EmptyIndex, cache), h)

InitRender ==
    \E r \in DOMAIN Repos, h \in 0..MaxTurns :
        LoadedAndAnswered(LoadedCache(Analyses[r], Summaries[r]), h)

\* contexts extracted and rendered by an agent with a loaded context and a history
NextRender == \E question \in RenderQuestions : ExtractAndPrepare(question)

SpecRender == InitRender /\ [][NextRender]_vars

\* questions answered through LLMUtils, before and after contexts are loaded
NextGenerate ==
    \/ \E r \in SessionRepos : load_repository_context(r)
    \/ \E question \in SessionQuestions, outcome \in Outcomes : Ask(question, outcome)

SpecGenerate == Init /\ [][NextGenerate]_vars

\* a new agent, or one with a loaded context and a history
InitSuggest == Init \/ InitRender

\* questions suggested by an agent whose context is loaded and whose history is cleared
\* at any time
NextSuggest ==
    \/ SuggestQuestions
    \/ \E r \in DOMAIN Repos : load_repository_context(r)
    \/ clear_conversation_history

SpecSuggest == InitSuggest /\ [][NextSuggest]_vars

------------------------------------------------------------------------------
(* Properties *)

\* whether a repository context is loaded
Loaded == context_cache # EmptyCache

\* the file records of the loaded analysis
LoadedFiles == IF Loaded THEN context_cache.analysis.files ELSE <<>>

\* C1: after any sequence of answer_question calls the history holds at most 10 entries
\* and is exactly the most recent min(n, 10) of the n completed question/answer pairs, in
\* the order in which they completed; a call that failed has appended nothing.
C1_HistoryIsMostRecentCompleted ==
    LET n == Len(completed)
        m == IF n < 10 THEN n ELSE 10
    IN  /\ Len(conversation_history) <= 10
        /\ Len(conversation_history) = m
        /\ \A i \in 1..m : conversation_history[i] = completed[n - m + i]

\* more than 10 cycles completed, under two different contexts, and the last call failed
C1_Witness ==
    /\ Len(completed) > 10
    /\ completed[1].context_used # completed[Len(completed)].context_used
    /\ last_call = "answer_question"
    /\ result.raised

\* C2: right after load_repository_context returns, the history holds no entry recorded
\* before that load, that is, it holds no entry at all.
C2_LoadReplacesHistory ==
    last_call = "load_repository_context" => conversation_history = <<>>

\* the keys and entries that an index may hold for the loaded context
IndexHoldsOnlyLoaded(index) ==
    /\ \A kv \in Range(index.files) :
           kv.value \in Range(LoadedFiles) /\ kv.key = Lower(kv.value.path)
    /\ \A kv \in Range(index.functions) : \A e \in Range(kv.value) :
           /\ e.file_info \in Range(LoadedFiles)
           /\ e.function \in Range(e.file_info.functions)
    /\ \A kv \in Range(index.classes) : \A e \in Range(kv.value) :
           /\ e.file_info \in Range(LoadedFiles)
           /\ e.class \in Range(e.file_info.classes)
    /\ \A kv \in Range(index.components) :
           kv.value \in Range(context_cache.key_components)

\* C3: the search index of a loaded context equals the index built from that context
\* alone, and holds no key or entry of a context loaded earlier.
C3_IndexReplacedWholesale ==
    Loaded =>
        /\ search_index = BuildFrom(EmptyIndex, context_cache)
        /\ IndexHoldsOnlyLoaded(search_index)

\* a load has just replaced an index that held files, functions and classes which the
\* newly loaded context does not have
C3_Witness ==
    /\ last_call = "load_repository_context"
    /\ \E kv \in Range(index_before.files) : kv.value \notin Range(LoadedFiles)
    /\ \E kv \in Range(index_before.functions) : ~HasKey(search_index.functions, kv.key)
    /\ \E kv \in Range(index_before.classes) : ~HasKey(search_index.classes, kv.key)

\* C4 as claimed: every function name of every loaded file record, lowercased, is a key of
\* the function mapping, an empty name included, and every entry under a key names the
\* path of the file record that owns the function.
C4_EveryFunctionNameIsKey ==
    Loaded =>
        /\ \A f \in Range(LoadedFiles) : \A fn \in Range(f.functions) :
               HasKey(search_index.functions, Lower(fn.name))
        /\ \A kv \in Range(search_index.functions) : \A e \in Range(kv.value) :
               \E f \in Range(LoadedFiles) : f.path = e.file /\ e.function \in Range(f.functions)

\* C4 as amended: every non-empty function name of every loaded file record, lowercased,
\* is a key of the function mapping, with an entry for that function and that file under
\* it; every entry under a key names the path of the file record that owns the function,
\* and the key is the function's lowercased name.
C4_NonEmptyFunctionNamesAreKeys ==
    Loaded =>
        /\ \A f \in Range(LoadedFiles) : \A fn \in Range(f.functions) :
               fn.name # "" =>
                   /\ HasKey(search_index.functions, Lower(fn.name))
                   /\ \E e \in Range(DictGet(search_index.functions, Lower(fn.name))) :
                          e.file = f.path /\ e.function = fn
        /\ \A kv \in Range(search_index.functions) : \A e \in Range(kv.value) :
               /\ kv.key # ""
               /\ kv.key = Lower(e.function.name)
               /\ \E f \in Range(LoadedFiles) : f.path = e.file /\ e.function \in Range(f.functions)

\* the loaded analysis has a function with an empty name, and a name that is shared by
\* functions of two files, written in different case
C4_Witness ==
    /\ last_call = "load_repository_context"
    /\ \E f \in Range(LoadedFiles) : \E fn \in Range(f.functions) : fn.name = ""
    /\ \E kv \in Range(search_index.functions) : \E e1, e2 \in Range(kv.value) :
           e1.file # e2.file /\ e1.function.name # e2.function.name

\* the number of parts of one format in a rendered context
CountParts(text, format) == Cardinality({i \in 1..Len(text) : text[i].part = format})

\* whether the last operation rendered a context for the loaded analysis
Rendered == last_call = "_prepare_context_for_llm" /\ Loaded

\* C5: the context rendered for a question of intent 'structure' lists, in its "Complete
\* File Structure" section, as many files as analysis.total_files.
C5_StructureListsTotalFiles ==
    (Rendered /\ result.context.type = "structure") =>
        CountParts(result.context_text, "structure_file") = context_cache.analysis.total_files

\* C6: for intent 'structure' or 'file' and an analysis with at least one file record, the
\* rendered context has a "Complete File Structure" heading followed by one line per file
\* record, in analysis order, each with the record's path, language, size and line count,
\* and it has no other line of that format.
C6_CompleteFileStructure ==
    (Rendered /\ result.context.type \in {"structure", "file"} /\ Len(LoadedFiles) >= 1) =>
        LET text == result.context_text
            n == Len(LoadedFiles)
        IN  /\ CountParts(text, "structure_file") = n
            /\ \E h \in 1..Len(text) :
                   /\ text[h] = [part |-> "heading", text |-> "Complete File Structure:"]
                   /\ h + n <= Len(text)
                   /\ \A i \in 1..n :
                          text[h + i] = [part |-> "structure_file",
                                         path |-> LoadedFiles[i].path,
                                         language |-> LoadedFiles[i].language,
                                         size |-> LoadedFiles[i].size,
                                         lines |-> LoadedFiles[i].lines]

\* a context of intent 'file' or 'structure' was rendered for an analysis with more file
\* records than the "Relevant Files" section shows
C6_Witness ==
    /\ Rendered
    /\ result.context.type \in {"structure", "file"}
    /\ Len(LoadedFiles) > ShownFiles

\* the loaded file records that have a function of the given name
FilesDefining(name) ==
    {f \in Range(LoadedFiles) : \E fn \in Range(f.functions) : fn.name = name}

\* C7: when a function named 'run' exists in exactly one loaded file, the context
\* extracted for "What does the run function do?" has exactly one function entry, which
\* references that file and the declaration line of run.
C7_RunFunctionIsTheOnlyEntry ==
    (Rendered /\ result.question = "What does the run function do?"
        /\ Cardinality(FilesDefining("run")) = 1) =>
        LET f == CHOOSE g \in FilesDefining("run") : TRUE
            functions == result.context.functions
        IN  /\ Len(functions) = 1
            /\ functions[1].file = f.path
            /\ functions[1].function.name = "run"
            /\ functions[1].function \in Range(f.functions)


\* the loaded analysis is that of a tree whose only files are README.md (markdown,
\* 40 lines) and main.py
ReadmeAndMainOnly ==
    /\ Loaded
    /\ context_cache.analysis.total_files = 2
    /\ Len(LoadedFiles) = 2
    /\ {f.path : f \in Range(LoadedFiles)} = {"README.md", "main.py"}
    /\ \A f \in Range(LoadedFiles) :
           f.path = "README.md" => f.language = "markdown" /\ f.lines = 40

\* the file record of README.md in the loaded analysis
Readme == CHOOSE f \in Range(LoadedFiles) : f.path = "README.md"

\* C8 as claimed: for an analysis of README.md (markdown, 40 lines) and main.py, the
\* question "What is the README about?" yields intent 'readme', exactly one context file,
\* README.md, and a rendered context that includes the whole content of README.md.
C8_ReadmeShownVerbatim ==
    (Rendered /\ ReadmeAndMainOnly /\ result.question = "What is the README about?") =>
        /\ result.context.type = "readme"
        /\ Len(result.context.files) = 1
        /\ result.context.files[1] = Readme
        /\ \E i \in 1..Len(result.context_text) :
               result.context_text[i] = [part |-> "full_content", content |-> Readme.content]

\* C8 as amended: for an analysis of README.md (markdown, 40 lines) and main.py, the
\* question "What is the README about?" yields intent 'readme' and exactly one context
\* file, README.md; the rendered context includes the whole content of README.md when it
\* has at most 3000 characters, and otherwise its first 3000 characters followed by
\* "..." and no part with the whole content.
C8_ReadmeShownUpToCap ==
    (Rendered /\ ReadmeAndMainOnly /\ result.question = "What is the README about?") =>
        LET text == result.context_text
            whole == [part |-> "full_content", content |-> Readme.content]
            first == [part |-> "content_first",
                      content |-> [src |-> "README.md", take |-> 3000, dots |-> TRUE]]
        IN  /\ result.context.type = "readme"
            /\ Len(result.context.files) = 1
            /\ result.context.files[1] = Readme
            /\ IF StrLen(Readme.content) <= 3000
               THEN (\E i \in 1..Len(text) : text[i] = whole)
                    /\ CountParts(text, "content_first") = 0
               ELSE (\E i \in 1..Len(text) : text[i] = first)
                    /\ CountParts(text, "full_content") = 0

\* the README question was asked about such a tree whose README.md has more than 3000
\* characters
C8_Witness ==
    /\ Rendered
    /\ ReadmeAndMainOnly
    /\ result.question = "What is the README about?"
    /\ StrLen(Readme.content) > 3000

\* the indexed file records whose lowercased path contains 'readme'
IndexedReadmes == {f \in Range(LoadedFiles) : Contains(Lower(f.path), "readme")}

\* whether the last operation extracted a context for a question that contains 'readme'
ReadmeAsked ==
    last_call = "_prepare_context_for_llm" /\ Contains(Lower(result.question), "readme")

\* C9 as claimed: for every question whose lowercased text contains 'readme' the intent
\* is 'readme', whatever else the question contains, and the context files include every
\* indexed file whose path contains 'readme'.
C9_ReadmeForcesIntent ==
    ReadmeAsked =>
        /\ result.context.type = "readme"
        /\ IndexedReadmes \subseteq Range(result.context.files)

\* C9 as amended: for every question whose lowercased text contains 'readme' the intent
\* is 'documentation' when the question also contains a documentation keyword and
\* 'readme' otherwise, whatever keywords of the other groups it contains; in both cases
\* the context files include every indexed file whose path contains 'readme'.
C9_ReadmeForcesIntentUnlessDocumentation ==
    ReadmeAsked =>
        /\ result.context.type =
               IF \E kw \in {"documentation", "docs", "doc"} :
                      Contains(Lower(result.question), kw)
               THEN "documentation" ELSE "readme"
        /\ IndexedReadmes \subseteq Range(result.context.files)

\* a question with 'readme' and a function keyword was asked about an analysis with two
\* files whose path contains 'readme'
C9_Witness ==
    /\ ReadmeAsked
    /\ Contains(Lower(result.question), "function")
    /\ Cardinality(IndexedReadmes) >= 2
    /\ result.context.type = "readme"

\* C10: for every question that contains neither 'readme' nor a documentation keyword the
\* intent is that of the first group, in the order function, class, file, structure,
\* technology, of which the question contains a keyword, and 'general' when it contains
\* none; the intent is one of the eight tags.
C10_FirstMatchWins ==
    LET q == Lower(result.question)
        has(group) == \E kw \in group : Contains(q, kw)
        fn == has({"function", "method", "def ", "function named"})
        cl == has({"class", "object", "inheritance"})
        fi == has({"file", "module", "script"})
        st == has({"structure", "architecture", "organization", "folder", "directory"})
        te == has({"language", "technology", "framework"})
        type == result.context.type
    IN  (last_call = "_prepare_context_for_llm"
            /\ ~Contains(q, "readme") /\ ~has({"documentation", "docs", "doc"})) =>
            /\ type \in {"general", "function", "class", "file", "structure", "technology",
                         "readme", "documentation"}
            /\ fn => type = "function"
            /\ (~fn /\ cl) => type = "class"
            /\ (~fn /\ ~cl /\ fi) => type = "file"
            /\ (~fn /\ ~cl /\ ~fi /\ st) => type = "structure"
            /\ (~fn /\ ~cl /\ ~fi /\ ~st /\ te) => type = "technology"
            /\ (~fn /\ ~cl /\ ~fi /\ ~st /\ ~te) => type = "general"

\* a question with a class keyword and a file keyword got the intent 'class'
C10_Witness ==
    /\ last_call = "_prepare_context_for_llm"
    /\ result.question = "class and file"
    /\ result.context.type = "class"


\* whether a list is an initial part of another
IsPrefix(a, b) == Len(a) <= Len(b) /\ a = SubSeq(b, 1, Len(a))

\* whether the last operation extracted a context for a question that no file, function,
\* class or component of the index matches
NothingMatched ==
    /\ last_call = "_prepare_context_for_llm"
    /\ LET found == Matches(search_index, Lower(result.question))
       IN  Len(found.files) = 0 /\ Len(found.functions) = 0
           /\ Len(found.classes) = 0 /\ Len(found.components) = 0

\* C11: when nothing of the index matches the question and the intent is 'function',
\* 'file' or 'class', the context holds an initial part, in index order, of the indexed
\* functions, files or classes: at most 20 functions, 15 files or 15 classes, and at
\* least one whenever the index holds a record of that kind.
C11_DefaultSlice ==
    NothingMatched =>
        LET context == result.context
            functions == Flatten(DictValues(search_index.functions))
            files == DictValues(search_index.files)
            classes == Flatten(DictValues(search_index.classes))
        IN  /\ context.type = "function" =>
                   /\ IsPrefix(context.functions, functions)
                   /\ Len(context.functions) <= 20
                   /\ Len(functions) > 0 => Len(context.functions) > 0
            /\ context.type = "file" =>
                   /\ IsPrefix(context.files, files)
                   /\ Len(context.files) <= 15
                   /\ Len(files) > 0 => Len(context.files) > 0
            /\ context.type = "class" =>
                   /\ IsPrefix(context.classes, classes)
                   /\ Len(context.classes) <= 15
                   /\ Len(classes) > 0 => Len(context.classes) > 0

\* nothing matched a question of intent 'function' and the index holds more than 20
\* functions, of which the context holds the first 20
C11_Witness ==
    /\ NothingMatched
    /\ result.context.type = "function"
    /\ Len(Flatten(DictValues(search_index.functions))) > 20
    /\ Len(result.context.functions) = 20


\* whether a rendered context has the heading of a section
HasHeading(text, title) ==
    \E i \in 1..Len(text) : text[i] = [part |-> "heading", text |-> title]

\* a section of a rendered context: it is there, with its heading and one entry for each
\* of the first `cap' items, exactly when there is an item
SectionShows(text, title, format, items, cap) ==
    /\ CountParts(text, format) = (IF items < cap THEN items ELSE cap)
    /\ HasHeading(text, title) <=> items > 0

\* C12: a rendered context lists at most 10 entries under 'Relevant Files', 10 under
\* 'Relevant Functions', 10 under 'Relevant Classes', 5 under 'Relevant Components',
\* 5 under 'Key File Summaries' and the last 3 turns under 'Recent Conversation',
\* however many the context and the history hold; a section without data is omitted.
C12_SectionsAreCapped ==
    last_call = "_prepare_context_for_llm" =>
        LET text == result.context_text
            context == result.context
            turns == Len(conversation_history)
            questions == {i \in 1..Len(text) : text[i].part = "Q"}
        IN  /\ SectionShows(text, "Relevant Files:", "file", Len(context.files), 10)
            /\ SectionShows(text, "Relevant Functions:", "function",
                            Len(context.functions), 10)
            /\ SectionShows(text, "Relevant Classes:", "class", Len(context.classes), 10)
            /\ SectionShows(text, "Relevant Components:", "component",
                            Len(context.components), 5)
            /\ SectionShows(text, "Recent Conversation:", "Q", turns, 3)
            /\ CountParts(text, "A") = CountParts(text, "Q")
            /\ \A i \in questions :
                   LET k == Cardinality({j \in questions : j > i})
                   IN  text[i].text = conversation_history[turns - k].question
            /\ CountParts(text, "file_summary") <= 5
            /\ HasHeading(text, "Key File Summaries:") =>
                   CountParts(text, "file_summary") > 0
            /\ Len(context_cache.file_summaries) = 0 =>
                   ~HasHeading(text, "Key File Summaries:")

\* a context with more than 10 files was rendered by an agent whose history holds more
\* than 3 turns
C12_Witness ==
    /\ last_call = "_prepare_context_for_llm"
    /\ Len(result.context.files) > 10
    /\ Len(conversation_history) > 3
    /\ CountParts(result.context_text, "file") = 10
    /\ CountParts(result.context_text, "Q") = 3


\* C13 as claimed: the number of entries of a rendered context is at most a fixed cap,
\* whatever the number of files of the loaded analysis and whatever the intent.  The cap
\* is the number of entries of all sections at their caps: 1 overview, 3 for the heading,
\* totals and blank of the file structure, 1 structure analysis, 1 language breakdown,
\* 22 for 10 files, 22 for 10 functions, 32 for 10 classes, 7 for 5 components, 7 for
\* 5 summaries and 8 for 3 turns.
C13_LengthIsCapped ==
    last_call = "_prepare_context_for_llm" => Len(result.context_text) <= 104

\* C13 as amended: a context rendered for an intent other than 'structure' and 'file'
\* has at most 101 entries, whatever the number of files of the loaded analysis; one
\* rendered for 'structure' or 'file' has at most 104 entries plus one for every file
\* record of the analysis.
C13_LengthIsCappedButForTheFileListing ==
    last_call = "_prepare_context_for_llm" =>
        IF result.context.type \in {"structure", "file"}
        THEN Len(result.context_text) <= 104 + Len(LoadedFiles)
        ELSE Len(result.context_text) <= 101

\* contexts were rendered for an analysis of more than 104 files
C13_Witness ==
    /\ last_call = "_prepare_context_for_llm"
    /\ Len(LoadedFiles) > 104
    /\ result.context.type \notin {"structure", "file"}
    /\ Len(conversation_history) > 3


\* the file of the loaded repository that the record `file_info' was made from
RawOf(file_info) ==
    CHOOSE raw \in Range(Repos[LoadedRepo].tree) : raw.path = file_info.path

\* C14: for every file a rendered context shows with content, the text shown is the
\* whole content of the file when the file has at most 3000 characters, and its first
\* 3000 characters followed by "..." otherwise, whether or not the record of the file
\* retained the full content.
C14_ShownContentIsTheFileUpToCap ==
    Rendered =>
        LET text == result.context_text
        IN  \A i \in 2..Len(text) :
                (text[i].part \in {"full_content", "content_first"}) =>
                    LET raw == RawOf(text[i - 1])
                        whole == WholeContent(raw.path, raw.chars)
                    IN  /\ text[i - 1].part = "file"
                        /\ IF raw.chars <= 3000
                           THEN text[i] = [part |-> "full_content", content |-> whole]
                           ELSE text[i] = [part |-> "content_first",
                                           content |-> WithDots(Prefix(whole, 3000))]


------------------------------------------------------------------------------
(* CodeParser and RepositorySummarizer called on a tree *)

MaxTreeFiles == 3   \* a tree drawn from the palette has at most this many files
MaxRaisesAt == 4    \* a callback raises at its first to its MaxRaisesAt-th invocation, or never

\* a file that cannot be read
Unreadable(file) == [file EXCEPT !.decodable = FALSE]

\* the files that small trees are drawn from
Palette ==
    <<File("README.md", 900, 900, 40, <<Hdr("Palette", 1, 1)>>, <<>>),
      [File("src/app.py", 6000, 6000, 150, <<Def("run", 3, <<>>, "")>>,
            <<Cls("App", 9, <<>>)>>) EXCEPT !.imports = <<"os", "sys">>],
      File("node_modules/lib/index.js", 300, 300, 10, <<Def("run", 1, <<>>, "")>>, <<>>),
      File("data/huge.json", MiB + 1, MiB + 1, 1, <<>>, <<>>),
      File("data/exact.json", MiB, MiB, 1, <<>>, <<>>),
      Unreadable(File("data/locked.py", 200, 200, 8, <<>>, <<>>)),
      File("notes/a.txt", 10, 10, 1, <<>>, <<>>),
      File("notes/b.txt", 10, 10, 1, <<>>, <<>>)>>

\* the trees of one to MaxTreeFiles different files of the palette, in every order
PaletteTrees ==
    LET Selections(n) == {sel \in [1..n -> DOMAIN Palette] :
                              \A i, j \in 1..n : sel[i] = sel[j] => i = j}
    IN  {[repo_path |-> "repos/p",
          tree |-> [i \in DOMAIN sel |-> Palette[sel[i]]] \o <<>>,
          components |-> <<>>] :
              sel \in UNION {Selections(n) : n \in 1..MaxTreeFiles}}

\* names and lengths of the files that one-file trees hold
GridNames ==
    {"README.md", "src/readme_gen.py", "LICENSE", "legal/THIRD_PARTY_LICENSES.json",
     "CHANGELOG", "db/old_changelog.sql", "CONTRIBUTING.rst", "src/contributing_stats.py",
     "src/app.py", "notes.txt", "Makefile"}
GridChars == {0, 500, 501, 4999, 5000, 9000}

\* the trees of one file
GridTrees ==
    {[repo_path |-> "repos/g",
      tree |-> <<File(name, chars, chars, chars \div 40 + 1, <<>>, <<>>)>>,
      components |-> <<>>] : name \in GridNames, chars \in GridChars}

\* the files of the trees that hold a directory named _files
UnderscoreFiles ==
    <<File("main.py", 400, 400, 12, <<Def("main", 2, <<>>, "")>>, <<>>),
      File("_files/upload.txt", 10, 10, 1, <<>>, <<>>),
      File("assets/logo.txt", 10, 10, 1, <<>>, <<>>),
      File("assets/_files/a.txt", 10, 10, 1, <<>>, <<>>),
      File("assets/_files/cache.pyc", 10, 10, 1, <<>>, <<>>),
      File("assets/_files/deep/b.txt", 10, 10, 1, <<>>, <<>>)>>

\* the trees of one to MaxTreeFiles of these files, in the order of a walk
UnderscoreTrees ==
    {[repo_path |-> "repos/u",
      tree |-> SelectSeq(UnderscoreFiles, LAMBDA raw : raw \in chosen),
      components |-> <<>>] :
          chosen \in {files \in SUBSET Range(UnderscoreFiles) :
                         Cardinality(files) \in 1..MaxTreeFiles}}

\* the trees the parser is called on: the small ones, two of the larger ones, and a
\* checkout that lies below a directory named build
ParserTrees ==
    PaletteTrees \cup GridTrees \cup UnderscoreTrees \cup {Repos[3], Repos[4]}
    \cup {[repo_path |-> "work/build/site",
           tree |-> <<Palette[1], Palette[2]>>,
           components |-> <<>>]}

\* the callbacks analyze_repository is called with
Callbacks == {NoCallback} \cup {Callback(n) : n \in 0..MaxRaisesAt}

\* the paths of a tree: its files and the directories above them
PathsOf(repo) ==
    UNION {{PathJoin(repo.repo_path, raw.path)}
           \cup {PathJoin(repo.repo_path, d) : d \in Range(DirsOf(raw.path))} :
               raw \in Range(repo.tree)}

\* a tree on disk and a new parser and summarizer; the parser and the summarizer keep
\* nothing from one call to the next, so each of the calls below is made once, on the
\* tree as it was drawn
InitParser ==
    /\ context_cache = EmptyCache
    /\ conversation_history = <<>>
    /\ search_index = EmptyIndex
    /\ last_call = "__init__"
    /\ \E repo \in ParserTrees : result = [repo |-> repo]
    /\ completed = <<>>
    /\ index_before = EmptyIndex

\* CodeParser().analyze_repository(repo_path, progress_callback)
AnalyzeRepository(progress_callback) ==
    /\ last_call = "__init__"
    /\ result' = [repo |-> result.repo,
                  progress_callback |-> progress_callback,
                  analysis |-> analyze_repository(result.repo, progress_callback)]
    /\ last_call' = "analyze_repository"
    /\ UNCHANGED <<context_cache, conversation_history, search_index, completed,
                   index_before>>

\* CodeParser().analyze_file(file_path, repo_root) for a file of the tree
AnalyzeFile(raw) ==
    /\ last_call = "__init__"
    /\ result' = [repo |-> result.repo,
                  raw |-> raw,
                  file_analysis |-> analyze_file(raw, result.repo.repo_path)]
    /\ last_call' = "analyze_file"
    /\ UNCHANGED <<context_cache, conversation_history, search_index, completed,
                   index_before>>

\* CodeParser().should_ignore_path(path) for a path of the tree
ShouldIgnorePath(path) ==
    /\ last_call = "__init__"
    /\ result' = [repo |-> result.repo,
                  path |-> path,
                  ignored |-> should_ignore_path(path)]
    /\ last_call' = "should_ignore_path"
    /\ UNCHANGED <<context_cache, conversation_history, search_index, completed,
                   index_before>>

\* RepositorySummarizer().get_important_files(analysis['files']) for the analysis of the tree
GetImportantFiles ==
    LET files == Get(analyze_repository(result.repo, NoCallback), "files", <<>>)
    IN  /\ last_call = "__init__"
        /\ result' = [repo |-> result.repo,
                      files |-> files,
                      important |-> get_important_files(files)]
        /\ last_call' = "get_important_files"
        /\ UNCHANGED <<context_cache, conversation_history, search_index, completed,
                       index_before>>

NextParser ==
    \/ \E progress_callback \in Callbacks : AnalyzeRepository(progress_callback)
    \/ \E raw \in Range(result.repo.tree) : AnalyzeFile(raw)
    \/ \E path \in PathsOf(result.repo) : ShouldIgnorePath(path)
    \/ GetImportantFiles

SpecParser == InitParser /\ [][NextParser]_vars


------------------------------------------------------------------------------
(* Properties of the parser and of the summarizer *)

\* whether analyze_file was the last call and returned a record
Analyzed == last_call = "analyze_file" /\ result.file_analysis # Skipped

\* C15: the record of an analyzed file stores the full content exactly when the
\* lowercased file name contains 'readme', 'license', 'changelog' or 'contributing'
\* anywhere, or the language is markdown, text or restructuredtext, or the content has
\* fewer than 5000 characters; the preview is the first 500 characters of the content,
\* followed by "..." exactly when the content is longer than 500 characters.
C15_RetentionPolicy ==
    Analyzed =>
        LET raw == result.raw
            file_info == result.file_analysis
            whole == WholeContent(raw.path, raw.chars)
        IN  /\ ("content" \in DOMAIN file_info) <=>
                   \/ ContainsAny(Lower(PathName(raw.path)),
                                  {"readme", "license", "changelog", "contributing"})
                   \/ file_info.language \in {"markdown", "text", "restructuredtext"}
                   \/ raw.chars < 5000
            /\ ("content" \in DOMAIN file_info) => file_info.content = whole
            /\ file_info.content_preview =
                   IF raw.chars > 500
                   THEN [src |-> raw.path, take |-> 500, dots |-> TRUE]
                   ELSE whole


\* whether a segment of the path is the name of an ignored directory
HasIgnoredSegment(path) == \E part \in Range(Split(path, "/")) : part \in ignore_dirs

\* whether analyze_repository was the last call and returned an analysis
AnalyzedRepository == last_call = "analyze_repository" /\ DOMAIN result.analysis # {}

\* the files of the drawn tree that lie below an ignored directory
BelowIgnored ==
    {raw \in Range(result.repo.tree) :
        HasIgnoredSegment(PathJoin(result.repo.repo_path, raw.path))}

\* the paths, relative to the root, of the files placed in a directory structure
StructureFiles(structure) ==
    UNION {{IF structure[i].key = "." THEN structure[i].value[j]
            ELSE PathJoin(structure[i].key, structure[i].value[j]) :
                j \in 1..Len(structure[i].value)} : i \in 1..Len(structure)}

\* C16: should_ignore_path is true of every path with a segment that names an ignored
\* directory, whatever the name and the extension of the file; analyze_repository does
\* not count a file below an ignored directory in total_files, has no record of it, and
\* places neither the file nor the ignored directory in the directory structure.
C16_IgnoredDirectories ==
    /\ (last_call = "should_ignore_path" /\ HasIgnoredSegment(result.path)) => result.ignored
    /\ AnalyzedRepository =>
           LET analysis == result.analysis
               below == {raw.path : raw \in BelowIgnored}
           IN  /\ analysis.total_files <= Len(result.repo.tree) - Cardinality(below)
               /\ \A i \in 1..Len(analysis.files) : analysis.files[i].path \notin below
               /\ StructureFiles(analysis.structure) \cap below = {}
               /\ \A i \in 1..Len(analysis.structure) :
                      ~HasIgnoredSegment(analysis.structure[i].key)

\* a tree was analyzed that holds, below an ignored directory, a file whose name and
\* extension are not ignored, next to files that are counted
C16_Witness ==
    /\ AnalyzedRepository
    /\ \E raw \in BelowIgnored :
           ~should_ignore_name(PathJoin(result.repo.repo_path, raw.path))
    /\ result.analysis.total_files > 0
    /\ Len(result.analysis.structure) > 0


\* the files of the drawn tree that the walk of analyze_repository lists and that are
\* larger than 1 MiB
TooLarge ==
    {raw \in Range(result.repo.tree) :
        Survives(result.repo.repo_path, raw.path) /\ raw.size > 1048576}

\* the sum of the line counts of a list of file records
TotalLines(files) == Fold(LAMBDA sum, file_info : sum + file_info.lines, 0, files, 1, Len(files))

\* C17: a file larger than 1 MiB (1048576 bytes) whose path is not ignored is counted in
\* total_files, but it has no record in files, does not increment analyzed_files and
\* adds nothing to the language statistics and to the totals of the summary; a file of
\* exactly 1 MiB that can be read has a record.
C17_LargeFilesAreCountedNotAnalyzed ==
    AnalyzedRepository =>
        LET analysis == result.analysis
            tree == result.repo.tree
            listed == SelectSeq(tree, LAMBDA raw : Survives(result.repo.repo_path, raw.path))
            kept == SelectSeq(listed, LAMBDA raw : raw \notin TooLarge /\ raw.decodable)
            with_language == SelectSeq(analysis.files, LAMBDA f : f.language # None)
        IN  /\ analysis.total_files = Len(listed)
            /\ \A raw \in TooLarge :
                   \A i \in 1..Len(analysis.files) : analysis.files[i].path # raw.path
            /\ analysis.analyzed_files = Len(kept)
            /\ Len(analysis.files) = Len(kept)
            /\ analysis.summary.total_lines = TotalLines(kept)
            /\ TotalLines(DictValues(analysis.languages)) = TotalLines(with_language)
            /\ \A raw \in Range(listed) :
                   (raw.size = 1048576 /\ raw.decodable) =>
                       \E i \in 1..Len(analysis.files) : analysis.files[i].path = raw.path

\* a tree was analyzed that holds a file of more than 1 MiB, a file of exactly 1 MiB and
\* a third file that has a record
C17_Witness ==
    /\ AnalyzedRepository
    /\ TooLarge # {}
    /\ \E raw \in Range(result.repo.tree) : raw.size = 1048576
    /\ result.analysis.analyzed_files = 2
    /\ result.analysis.total_files = 3


\* the drawn tree without its k-th file
Without(repo, k) ==
    [repo EXCEPT !.tree = SubSeq(repo.tree, 1, k - 1) \o SubSeq(repo.tree, k + 1, Len(repo.tree))]

\* whether the analysis of the k-th file of the drawn tree fails: the walk lists the
\* file and analyze_file returns the skip signal for it
Fails(k) ==
    /\ Survives(result.repo.repo_path, result.repo.tree[k].path)
    /\ analyze_file(result.repo.tree[k], result.repo.repo_path) = Skipped

\* C18: when the analysis of a listed file fails, analyze_repository still analyzes every
\* other listed file: files holds, in walk order, the record analyze_file makes of each
\* listed file for which it makes one, and it is the list that the same tree without
\* the failing file yields.
C18_FailuresAreIsolated ==
    AnalyzedRepository =>
        LET repo == result.repo
            listed == SelectSeq(repo.tree, LAMBDA raw : Survives(repo.repo_path, raw.path))
            records == Map(LAMBDA raw : analyze_file(raw, repo.repo_path), listed)
        IN  /\ result.analysis.files = SelectSeq(records, LAMBDA record : record # Skipped)
            /\ \A k \in 1..Len(repo.tree) :
                   Fails(k) =>
                       analyze_repository(Without(repo, k), NoCallback).files
                           = result.analysis.files

\* a tree of three files was analyzed, the second of which fails: the first and the
\* third have a record
C18_Witness ==
    /\ AnalyzedRepository
    /\ Len(result.repo.tree) = 3
    /\ Fails(2)
    /\ Len(result.analysis.files) = 2


\* C19: the analysis analyze_repository returns for a tree is the one it returns when no
\* progress callback is given, whatever callback is given, one that raises when it is
\* invoked included.
C19_CallbackIsAdvisory ==
    last_call = "analyze_repository" =>
        result.analysis = analyze_repository(result.repo, NoCallback)


\* the position of a file record in a list in which it occurs once
PositionIn(files, file_info) == CHOOSE i \in 1..Len(files) : files[i] = file_info

\* C20: get_important_files returns a permutation of its input in which the importance
\* score never increases, and two files of equal score keep the order they have in the
\* input.
C20_StableDescendingByScore ==
    last_call = "get_important_files" =>
        LET files == result.files
            important == result.important
            Score(i) == calculate_importance_score(important[i])
        IN  /\ Len(important) = Len(files)
            /\ \A f \in Range(files) \cup Range(important) :
                   Cardinality({i \in 1..Len(files) : files[i] = f})
                       = Cardinality({i \in 1..Len(important) : important[i] = f})
            /\ \A i \in 1..(Len(important) - 1) : Score(i) >= Score(i + 1)
            /\ \A i, j \in 1..Len(files) :
                   (i < j /\ calculate_importance_score(files[i])
                                 = calculate_importance_score(files[j])) =>
                       PositionIn(important, files[i]) < PositionIn(important, files[j])

\* files were ranked of which two have the same score and a third, which comes after
\* one of them in the input, has a higher score
C20_Witness ==
    /\ last_call = "get_important_files"
    /\ \E i, j, k \in 1..Len(result.files) :
           /\ i < j /\ i < k
           /\ calculate_importance_score(result.files[i])
                  = calculate_importance_score(result.files[j])
           /\ calculate_importance_score(result.files[k])
                  > calculate_importance_score(result.files[i])
    /\ result.important # result.files


\* C21: the importance score of a file includes the 15 points of the location bonus
\* whenever the relative path of the file has at most one directory separator or has a
\* directory segment named 'src', the first segment of the path included.
C21_LocationBonus ==
    last_call = "get_important_files" =>
        \A f \in Range(result.files) :
            LET path == Lower(f.path)
                dirs == SubSeq(Split(path, "/"), 1, Len(Split(path, "/")) - 1)
            IN  (CountChar(path, "/") <= 1 \/ "src" \in Range(dirs)) =>
                    calculate_importance_score(f)
                        = PathScore(path) + LanguageScore(f.language)
                          + SizeScore(f.lines, Len(f.functions), Len(f.classes)) + 15


------------------------------------------------------------------------------
(* Properties of the agent: suggestions and failures *)

\* C22: suggest_questions returns a list of at most 10 questions in every state of the
\* agent, and when a context is loaded the first three are the three general questions.
C22_AtMostTenSuggestions ==
    last_call = "suggest_questions" =>
        /\ Len(result.suggestions) <= 10
        /\ \A i \in 1..Len(result.suggestions) : result.suggestions[i] \in STRING
        /\ Loaded =>
               SubSeq(result.suggestions, 1, 3)
                   = <<"What is the main purpose of this repository?",
                       "What programming languages are used in this project?",
                       "How is the code organized and structured?">>

\* questions were suggested for a context with at least three function names, two class
\* names, several languages and more than two components: more than ten come to mind
C22_Witness ==
    /\ last_call = "suggest_questions"
    /\ Loaded
    /\ Len(search_index.functions) >= 3
    /\ Len(search_index.classes) >= 2
    /\ Len(context_cache.language_breakdown) > 1
    /\ Len(context_cache.key_components) > 2
    /\ Len(result.suggestions) = 10


\* C23: when extracting the context, rendering it or generating the answer raises,
\* answer_question returns an apology and an empty context, and no exception reaches the
\* caller, whether a repository context is loaded or not; the history holds the
\* completed pairs only.
C23_FailureBecomesApology ==
    (last_call = "answer_question" /\ result.raised) =>
        /\ "exception" \notin DOMAIN result
        /\ StartsWith(result.answer, "I'm sorry, I encountered an error")
        /\ result.context = EmptyDict
        /\ conversation_history = LastN(completed, 10)

\* a question failed before any repository context was loaded
C23_Witness ==
    /\ last_call = "answer_question"
    /\ result.raised
    /\ ~Loaded
    /\ Len(completed) > 0


\* C24: the answer that answer_question returns and records in the history is the text
\* the generator produced or, whenever the call of the generator fails (missing key,
\* timeout, transport failure, malformed or empty response), the fixed fallback string:
\* it is never a text that describes the failure.
C24_FailedGeneratorGivesFallback ==
    (last_call = "answer_question" /\ ~result.raised) =>
        LET produced == {Strip(text) : text \in GeneratedTexts} \ {""}
            recorded == conversation_history[Len(conversation_history)]
        IN  /\ result.answer \in produced \cup {FallbackAnswer}
            /\ recorded.answer = result.answer


------------------------------------------------------------------------------
(* CodeParser.analyze_text_file called on a markdown file *)

MaxLines == 3   \* a markdown file has at most this many lines

\* the lines markdown files are made of
MarkdownLines ==
    {"# Title", "## Usage", "### Notes ###", "#tag", "  ## Indented", "\t# Tabbed",
     "plain text", ""}

\* the markdown files: one to MaxLines lines
MarkdownFiles == UNION {[1..n -> MarkdownLines] : n \in 1..MaxLines}

\* a markdown file on disk and a new parser
InitText ==
    /\ context_cache = EmptyCache
    /\ conversation_history = <<>>
    /\ search_index = EmptyIndex
    /\ last_call = "__init__"
    /\ \E lines \in MarkdownFiles : result = [lines |-> lines \o <<>>]
    /\ completed = <<>>
    /\ index_before = EmptyIndex

\* CodeParser().analyze_text_file(content, file_info) with file_info['language'] == 'markdown'
AnalyzeTextFile ==
    /\ last_call = "__init__"
    /\ result' = [lines |-> result.lines, functions |-> analyze_text_file(result.lines)]
    /\ last_call' = "analyze_text_file"
    /\ UNCHANGED <<context_cache, conversation_history, search_index, completed,
                   index_before>>

NextText == AnalyzeTextFile

SpecText == InitText /\ [][NextText]_vars

\* the number of '#' characters a text starts with
LeadingHashes(text) == Len(text) - Len(LStripChars(text, {"#"}))

\* the lines of the analyzed file whose first non-blank character is '#'
HeadingLines ==
    {i \in 1..Len(result.lines) : StartsWith(StripChars(result.lines[i], Whitespace), "#")}

\* C25: every line of a markdown file whose first non-blank character is '#', an
\* indented one included, yields exactly one record: its line is the number of the
\* line, its name is the text of the heading without the '#' characters, and its type
\* is 'header_h<d>', d >= 1 being the number of '#' characters the heading starts with.
C25_HeadingRecords ==
    last_call = "analyze_text_file" =>
        /\ Len(result.functions) = Cardinality(HeadingLines)
        /\ \A i \in HeadingLines :
               LET heading == StripChars(result.lines[i], Whitespace)
                   records == {k \in 1..Len(result.functions) : result.functions[k].line = i}
               IN  /\ Cardinality(records) = 1
                   /\ \A k \in records :
                          /\ LeadingHashes(heading) >= 1
                          /\ result.functions[k].type
                                 = "header_h" \o ToString(LeadingHashes(heading))
                          /\ result.functions[k].name
                                 = StripChars(StripChars(heading, {"#"}), Whitespace)


------------------------------------------------------------------------------
(* CodeParser.analyze_python_file called on a Python file *)

MaxStatements == 3   \* a Python file has at most this many statements
MaxIndent == 2       \* and blocks nested at most this deep

\* the statements Python files are made of
Statements ==
    {[kind |-> kind, name |-> "f", indent |-> indent] :
        kind \in {"def", "async def", "class", "if", "stmt"},
        indent \in 0..MaxIndent}

\* whether the statements make a file ast.parse accepts: the first is not indented and
\* a statement is one block deeper than the one before it only in the body of a
\* compound statement
ValidSource(source) ==
    /\ source[1].indent = 0
    /\ \A i \in 1..(Len(source) - 1) :
           /\ source[i + 1].indent <= source[i].indent + 1
           /\ source[i + 1].indent = source[i].indent + 1 => source[i].kind # "stmt"

\* the Python files: one to MaxStatements statements
PythonFiles ==
    {source \in UNION {[1..n -> Statements] : n \in 1..MaxStatements} : ValidSource(source)}

\* a Python file on disk and a new parser
InitPython ==
    /\ context_cache = EmptyCache
    /\ conversation_history = <<>>
    /\ search_index = EmptyIndex
    /\ last_call = "__init__"
    /\ \E source \in PythonFiles : result = [source |-> source \o <<>>]
    /\ completed = <<>>
    /\ index_before = EmptyIndex

\* CodeParser().analyze_python_file(content, file_info)
AnalyzePythonFile ==
    /\ last_call = "__init__"
    /\ result' = [source |-> result.source, file_info |-> analyze_python_file(result.source)]
    /\ last_call' = "analyze_python_file"
    /\ UNCHANGED <<context_cache, conversation_history, search_index, completed,
                   index_before>>

NextPython == AnalyzePythonFile

SpecPython == InitPython /\ [][NextPython]_vars

\* the lines of the analyzed file at which a definition of one of the kinds starts
Definitions(kinds) == {i \in 1..Len(result.source) : result.source[i].kind \in kinds}

\* whether the records are one for each of the lines, with the line as their line
OnePerLine(records, lines) ==
    /\ Len(records) = Cardinality(lines)
    /\ \A i \in lines : \E k \in 1..Len(records) : records[k].line = i

\* C26: for a syntactically valid Python file, every function definition (top-level,
\* nested, method, 'async def') has exactly one record in functions and every class
\* definition exactly one in classes, with the line of its declaration.
C26_EveryDefinitionOnce ==
    last_call = "analyze_python_file" =>
        /\ OnePerLine(result.file_info.functions, Definitions({"def", "async def"}))
        /\ OnePerLine(result.file_info.classes, Definitions({"class"}))


\* the sum of Count(x) over the items x of a list
SumOver(Count(_), lst) == Fold(LAMBDA sum, x : sum + Count(x), 0, lst, 1, Len(lst))

\* the file records of a list whose language is lang
OfLanguage(files, lang) == SelectSeq(files, LAMBDA f : f.language = lang)

\* C27: in every analysis analyze_repository returns, analyzed_files is the length of
\* files and at most total_files; the totals of the summary are the sums of the lines
\* and of the numbers of functions, classes and imports of the file records; the entry
\* of every language holds the number and the line sum of the records of that language,
\* and the records without a language are in no entry.
C27_TotalsAreSums ==
    AnalyzedRepository =>
        LET analysis == result.analysis
            files == analysis.files
        IN  /\ analysis.analyzed_files = Len(files)
            /\ analysis.analyzed_files <= analysis.total_files
            /\ analysis.summary.total_lines = SumOver(LAMBDA f : f.lines, files)
            /\ analysis.summary.total_functions = SumOver(LAMBDA f : Len(f.functions), files)
            /\ analysis.summary.total_classes = SumOver(LAMBDA f : Len(f.classes), files)
            /\ analysis.summary.total_imports = SumOver(LAMBDA f : Len(f.imports), files)
            /\ Range(DictKeys(analysis.languages)) = {f.language : f \in Range(files)} \ {None}
            /\ Len(analysis.languages) = Cardinality(Range(DictKeys(analysis.languages)))
            /\ \A i \in 1..Len(analysis.languages) :
                   LET entry == analysis.languages[i]
                   IN  /\ entry.value.files = Len(OfLanguage(files, entry.key))
                       /\ entry.value.lines
                              = SumOver(LAMBDA f : f.lines, OfLanguage(files, entry.key))

\* a tree was analyzed in which a file fails, a record has no language, a language has
\* several records and the files have functions and classes
C27_Witness ==
    /\ AnalyzedRepository
    /\ result.analysis.analyzed_files < result.analysis.total_files
    /\ \E i \in 1..Len(result.analysis.files) : result.analysis.files[i].language = None
    /\ \E i \in 1..Len(result.analysis.languages) : result.analysis.languages[i].value.files > 1
    /\ result.analysis.summary.total_functions > 1
    /\ result.analysis.summary.total_classes > 1


\* C28: the files list of the context extracted for a question holds every file record
\* at most once, also when the path-segment search, the 'readme' override and the
\* documentation override all select the file.
C28_ContextFilesAreDistinct ==
    last_call = "_prepare_context_for_llm" =>
        \A i, j \in 1..Len(result.context.files) :
            result.context.files[i] = result.context.files[j] => i = j



\* whether analyze_repository was called on the drawn tree with no callback or with one
\* that returns from every invocation
CalledUndisturbed ==
    /\ last_call = "analyze_repository"
    /\ ~result.progress_callback.given \/ result.progress_callback.raises_at = 0

\* C29: for every tree, one with a directory named '_files' included, analyze_repository
\* returns a full analysis whose directory structure holds the name of every file that is
\* not ignored exactly once, in the '_files' list of the directory the file lies in, so
\* that the structure holds as many file names as total_files.
C29_StructureHoldsEveryFileOnce ==
    CalledUndisturbed =>
        /\ DOMAIN result.analysis # {}
        /\ LET structure == result.analysis.structure
               repo == result.repo
           IN  /\ \A raw \in Range(repo.tree) :
                      Survives(repo.repo_path, raw.path) =>
                          /\ HasKey(structure, DirName(raw.path))
                          /\ Cardinality({j \in 1..Len(DictGet(structure, DirName(raw.path))) :
                                 DictGet(structure, DirName(raw.path))[j] = PathName(raw.path)})
                                 = 1
               /\ SumOver(LAMBDA entry : Len(entry.value), structure)
                      = result.analysis.total_files



\* the same tree checked out at another place
Relocated(repo, repo_path) == [repo EXCEPT !.repo_path = repo_path]

\* the relative paths of the file records of an analysis
AnalyzedPaths(analysis) == {f.path : f \in Range(Get(analysis, "files", <<>>))}

\* C30: which files survive the filtering depends on their paths relative to the root
\* only: total_files and the set of analyzed relative paths of a tree are those of the
\* same tree at any other root, a root below a directory named like an ignored directory
\* (build, bin, env, target, vendor) included.
C30_FilteringIsRelativeToTheRoot ==
    CalledUndisturbed =>
        \A repo_path \in {"repos/p", "srv/checkouts/site", "work/build/site"} :
            LET elsewhere == analyze_repository(Relocated(result.repo, repo_path), NoCallback)
            IN  /\ Get(result.analysis, "total_files", 0) = Get(elsewhere, "total_files", 0)
                /\ AnalyzedPaths(result.analysis) = AnalyzedPaths(elsewhere)

====
